---- MODULE Spec2Model ----
(***************************************************************************)
(* granola-sync: the sync orchestration engine (SyncService), its          *)
(* persisted state (StateManager) and the change detection between them.   *)
(*                                                                         *)
(* Python values: a missing dict key and None are both written None; a     *)
(* timestamp is the value of `clock` (one tick per cycle), 0 standing for  *)
(* a timestamp that is None.                                               *)
(***************************************************************************)
EXTENDS Integers, Sequences, FiniteSets, TLC

(* ------------------------------ bounds --------------------------------- *)
\* cycles (calls of sync_once) in one behaviour
MaxCycles == 3
\* events from outside the service in one behaviour: a change of a document's
\* updated_at on the remote side, or a restart of the process
MaxEvents == 2
\* largest batch_size tried (the smallest is -1: the config takes any int)
MaxBatch == 2
\* longest document list given to the change detector on its own
MaxLen == 3

\* StateManager calls in a behaviour of the StateManager on its own
MaxOps == 4
\* largest retry_attempts tried (the smallest is -1: the config takes any int)
MaxRetry == 3
\* blocks (paragraphs, headings, lists) in a rich-text document
MaxBlocks == 2
\* text nodes in a paragraph or heading, items in a list
MaxInline == 2
\* segments in a transcript
MaxSegments == 2
\* entries in people.attendees, in people and in attendees
MaxPeople == 2
MaxCalls == 2

VARIABLES
  layout,      \* the remote folders and the ids each lists (fixed per behaviour)
  version,     \* remote side: updated_at of each document id
  batch_size,  \* config.sync.batch_size
  granola_folders, \* config.granola.folders
  state,       \* StateManager._state of the running process
  file,        \* the state file on disk
  running,     \* SyncService._running
  pc,          \* where the service is: init, check, fetch, folder, doc, sleep, stopped
  mode,        \* who called sync_once: "once" (a direct call) or "loop" (run())
  dry_run,     \* the dry_run argument of the current sync_once call
  fi,          \* index in configured_folders of the folder being handled
  new_docs,    \* result of _filter_new_documents for that folder
  queue,       \* new_docs[:batch_size] not yet processed
  folder_summary, \* the summary dict _sync_documents is building
  summary,     \* the summary dict of the current (or last returned) cycle
  result,      \* outcome of the last sync_once call: none, running, returned, raised
  clock,       \* number of cycles started; the value datetime.now() gives
  events,      \* remote changes and restarts so far
  log,         \* sends of the current cycle: <<[id, marker, ok]>>
  delivered,   \* every <<id, marker>> a webhook delivery succeeded for
  writes,      \* state file writes made by the current cycle
  deferred,    \* [folder, doc]: documents selected in the current cycle and cut off by the batch
  before,      \* the in-memory state when the current cycle began
  stopCalled,  \* stop() was called on this service since run() began
  stopMid,     \* stop() was called while a cycle of run() was in progress
  stopEarly,   \* stop() was called before run() began to execute
  fdocs,       \* change detector on its own: the document list
  fstate,      \* change detector on its own: the state it reads
  fresult,     \* change detector on its own: [done, value, calls], value what its last call returned
  retry_attempts,     \* config.sync.retry_attempts, given to WebhookSender
  include_transcript, \* config.granola.include_transcript
  ppc,         \* one _process_document call: idle, transcript, post, sleep, end
  tfetch,      \* what get_transcript did in that call: none, ok, raised
  transcript,  \* the transcript _process_document holds (NoTranscript: None)
  payload,     \* the payload _build_payload returned (NoPayload: not built)
  attempt,     \* send: the loop variable of `for attempt in range(retry_attempts)`
  headers,     \* send: the headers dict built before the loop (NoHeaders: not built)
  posts,       \* send: the POSTs made, <<[payload, headers, response]>>
  last_error,  \* send: last_error
  send_raised, \* the exception send raised (NoError: none)
  pres,        \* what _process_document returned: "True", "False" ("none": not yet)
  disk,        \* the state file as text: [exists, text], text a sequence of tokens
  shape,       \* what json.load gave the StateManager as _state: "dict" or "list"
  fpc,         \* the process owning the state file: down, up, saving, fatal
  opres,       \* outcome of the last StateManager call: none, constructed, ok, True, False, KeyError, TypeError
  atsave,      \* [done, value]: _state right after the last save() that completed
  prev,        \* the file as it was when the save() in progress began
  pin,         \* a pure function on its own: [fn, arg], the function and its argument
  pout         \* a pure function on its own: [done, raised, value], what the call gave

vars == <<layout, version, batch_size, granola_folders, state, file, running, pc, mode, dry_run, fi, new_docs, queue, folder_summary, summary, result, clock, events, log, delivered, writes, deferred, before, stopCalled, stopMid, stopEarly, fdocs, fstate, fresult, retry_attempts, include_transcript, ppc, tfetch, transcript, payload, headers, attempt, posts, last_error, send_raised, pres, disk, shape, fpc, opres, atsave, prev, pin, pout>>

(* --------------------------- Python values ----------------------------- *)
None == "None"

\* the values `not x` is true for, among those a document field takes
Falsy(x) == x = None \/ x = ""

\* Python's `a or b`
PyOr(a, b) == IF Falsy(a) THEN b ELSE a

Min(a, b) == IF a <= b THEN a ELSE b

Max(a, b) == IF a >= b THEN a ELSE b

\* s[:k] as it would be with the cut one place too far
SliceTo_off_by_one(s, k) == SubSeq(s, 1, IF k + 1 <= Len(s) THEN k + 1 ELSE Len(s))

\* Python's s[:k], for any integer k
SliceTo(s, k) == IF k >= 0 THEN SubSeq(s, 1, Min(k, Len(s))) ELSE SubSeq(s, 1, Max(Len(s) + k, 0))

EmptyMap == [x \in {} |-> None]

\* a string is the sequence of its pieces; LF is the line break
LF == "\n"

RECURSIVE join_without_breaks(_)
\* the join as it would be with the empty string as separator
join_without_breaks(lines) == IF lines = <<>> THEN <<>> ELSE lines[1] \o join_without_breaks(Tail(lines))

RECURSIVE join(_)
\* "\n".join(lines)
join(lines) == IF lines = <<>> THEN <<>> ELSE IF Len(lines) = 1 THEN lines[1] ELSE lines[1] \o <<LF>> \o join(Tail(lines))

\* d[k] = v
Put(d, k, v) == [x \in (DOMAIN d) \cup {k} |-> IF x = k THEN v ELSE d[x]]

\* d.pop(k, None)
Pop(d, k) == [x \in (DOMAIN d) \ {k} |-> d[x]]

(* ------------------------------ documents ------------------------------ *)
Ids == {"d1", "d2"}

\* a document as get_folders lists it; created_at never changes
Doc(id, u) == [id |-> id, title |-> "Meeting", updated_at |-> u, created_at |-> "t0"]

\* the version marker: doc.get("updated_at") or doc.get("created_at")
Marker(doc) == PyOr(doc.updated_at, doc.created_at)

(* ------------------------------ StateManager --------------------------- *)
_default_state == [version |-> 1, last_sync |-> 0, folders |-> EmptyMap, seen_documents |-> EmptyMap, failed_documents |-> EmptyMap, stats |-> [total_synced |-> 0, total_errors |-> 0, last_error |-> 0, by_folder |-> EmptyMap]]

NoFile == [exists |-> FALSE, data |-> _default_state]

\* StateManager.__init__ then _load: the file's content, the default when there is none
Load(f) == IF f.exists THEN f.data ELSE _default_state

\* StateManager.save: stamps last_sync, then writes the whole state
SavedState(st, now) == [st EXCEPT !.last_sync = now]

is_document_seen(st, doc_id) == doc_id \in DOMAIN st.seen_documents

\* is_document_updated as it would be if it only looked the id up
is_document_updated_presence(st, doc_id, updated_at) == doc_id \notin DOMAIN st.seen_documents

\* is_document_updated as it would be if every seen document counted as updated
is_document_updated_always(st, doc_id, updated_at) == TRUE

is_document_updated(st, doc_id, updated_at) ==
  IF doc_id \notin DOMAIN st.seen_documents THEN TRUE
  ELSE st.seen_documents[doc_id].last_updated # updated_at

\* stats.by_folder as it would be if the folder's entry were created at every call
WithFolder_always_new(bf, folder_name) == Put(bf, folder_name, [synced |-> 0, errors |-> 0])

\* stats.by_folder with the folder's entry created when missing
WithFolder(bf, folder_name) == IF folder_name \in DOMAIN bf THEN bf ELSE Put(bf, folder_name, [synced |-> 0, errors |-> 0])

\* mark_synced as it would be without the pop of the failed record
mark_synced_keeps_failed(st, doc_id, doc, folder_name, now) ==
  LET seen == st.seen_documents
      rec == [title |-> IF doc.title = None THEN "Untitled" ELSE doc.title,
              folder_name |-> folder_name,
              first_seen |-> IF doc_id \in DOMAIN seen THEN seen[doc_id].first_seen ELSE now,
              last_updated |-> PyOr(doc.updated_at, doc.created_at),
              synced_at |-> now,
              webhook_status |-> "success"]
      bf == WithFolder(st.stats.by_folder, folder_name)
  IN  [st EXCEPT !.seen_documents = Put(seen, doc_id, rec),
                 !.stats = [@ EXCEPT !.total_synced = @ + 1,
                                     !.by_folder = Put(bf, folder_name, [bf[folder_name] EXCEPT !.synced = @ + 1])]]

\* mark_synced as it would be if a success took the document's failures
\* back out of the error counters
mark_synced_uncounts_errors(st, doc_id, doc, folder_name, now) ==
  LET seen == st.seen_documents
      rec == [title |-> IF doc.title = None THEN "Untitled" ELSE doc.title,
              folder_name |-> folder_name,
              first_seen |-> IF doc_id \in DOMAIN seen THEN seen[doc_id].first_seen ELSE now,
              last_updated |-> PyOr(doc.updated_at, doc.created_at),
              synced_at |-> now,
              webhook_status |-> "success"]
      bf == WithFolder(st.stats.by_folder, folder_name)
      gone == IF doc_id \in DOMAIN st.failed_documents THEN st.failed_documents[doc_id].attempts ELSE 0
  IN  [st EXCEPT !.seen_documents = Put(seen, doc_id, rec),
                 !.failed_documents = Pop(@, doc_id),
                 !.stats = [@ EXCEPT !.total_synced = @ + 1,
                                     !.total_errors = @ - gone,
                                     !.by_folder = Put(bf, folder_name, [bf[folder_name] EXCEPT !.synced = @ + 1])]]

\* mark_synced as it would be if first_seen were stamped at every sync
mark_synced_restamps_first_seen(st, doc_id, doc, folder_name, now) ==
  LET seen == st.seen_documents
      rec == [title |-> IF doc.title = None THEN "Untitled" ELSE doc.title,
              folder_name |-> folder_name,
              first_seen |-> now,
              last_updated |-> PyOr(doc.updated_at, doc.created_at),
              synced_at |-> now,
              webhook_status |-> "success"]
      bf == WithFolder(st.stats.by_folder, folder_name)
  IN  [st EXCEPT !.seen_documents = Put(seen, doc_id, rec),
                 !.failed_documents = Pop(@, doc_id),
                 !.stats = [@ EXCEPT !.total_synced = @ + 1,
                                     !.by_folder = Put(bf, folder_name, [bf[folder_name] EXCEPT !.synced = @ + 1])]]

mark_synced(st, doc_id, doc, folder_name, now) ==
  LET seen == st.seen_documents
      rec == [title |-> IF doc.title = None THEN "Untitled" ELSE doc.title,
              folder_name |-> folder_name,
              first_seen |-> IF doc_id \in DOMAIN seen THEN seen[doc_id].first_seen ELSE now,
              last_updated |-> PyOr(doc.updated_at, doc.created_at),
              synced_at |-> now,
              webhook_status |-> "success"]
      bf == WithFolder(st.stats.by_folder, folder_name)
  IN  [st EXCEPT !.seen_documents = Put(seen, doc_id, rec),
                 !.failed_documents = Pop(@, doc_id),
                 !.stats = [@ EXCEPT !.total_synced = @ + 1,
                                     !.by_folder = Put(bf, folder_name, [bf[folder_name] EXCEPT !.synced = @ + 1])]]

\* mark_failed as it would be if a failure dropped the seen record
mark_failed_evicts_seen(st, doc_id, error, folder_name, doc, now) ==
  LET failed == st.failed_documents
      had == doc_id \in DOMAIN failed
      rec == [title |-> IF ~Falsy(doc.title) THEN doc.title ELSE IF had THEN failed[doc_id].title ELSE "Unknown",
              folder_name |-> folder_name,
              attempts |-> (IF had THEN failed[doc_id].attempts ELSE 0) + 1,
              last_error |-> error,
              last_attempt |-> now]
      bf == WithFolder(st.stats.by_folder, folder_name)
  IN  [st EXCEPT !.failed_documents = Put(failed, doc_id, rec),
                 !.seen_documents = Pop(@, doc_id),
                 !.stats = [@ EXCEPT !.total_errors = @ + 1,
                                     !.last_error = now,
                                     !.by_folder = Put(bf, folder_name, [bf[folder_name] EXCEPT !.errors = @ + 1])]]

\* mark_failed as it would be if it did not read the existing record
mark_failed_forgets_attempts(st, doc_id, error, folder_name, doc, now) ==
  LET failed == st.failed_documents
      had == doc_id \in DOMAIN failed
      rec == [title |-> IF ~Falsy(doc.title) THEN doc.title ELSE IF had THEN failed[doc_id].title ELSE "Unknown",
              folder_name |-> folder_name,
              attempts |-> 1,
              last_error |-> error,
              last_attempt |-> now]
      bf == WithFolder(st.stats.by_folder, folder_name)
  IN  [st EXCEPT !.failed_documents = Put(failed, doc_id, rec),
                 !.stats = [@ EXCEPT !.total_errors = @ + 1,
                                     !.last_error = now,
                                     !.by_folder = Put(bf, folder_name, [bf[folder_name] EXCEPT !.errors = @ + 1])]]

mark_failed(st, doc_id, error, folder_name, doc, now) ==
  LET failed == st.failed_documents
      had == doc_id \in DOMAIN failed
      rec == [title |-> IF ~Falsy(doc.title) THEN doc.title ELSE IF had THEN failed[doc_id].title ELSE "Unknown",
              folder_name |-> folder_name,
              attempts |-> (IF had THEN failed[doc_id].attempts ELSE 0) + 1,
              last_error |-> error,
              last_attempt |-> now]
      bf == WithFolder(st.stats.by_folder, folder_name)
  IN  [st EXCEPT !.failed_documents = Put(failed, doc_id, rec),
                 !.stats = [@ EXCEPT !.total_errors = @ + 1,
                                     !.last_error = now,
                                     !.by_folder = Put(bf, folder_name, [bf[folder_name] EXCEPT !.errors = @ + 1])]]

\* StateManager.update_folder: the folder's metadata record, created when missing
update_folder(st, folder_name, folder_id, now) ==
  [st EXCEPT !.folders = Put(@, folder_name, [folder_id |-> folder_id, last_sync |-> now])]

\* StateManager.clear
clear(st) == _default_state

(* --------------------------- change detection -------------------------- *)
RECURSIVE _filter_new_documents_capped(_, _)
\* change detection as it would be if a document were given up after two
\* failed deliveries
_filter_new_documents_capped(st, documents) ==
  IF documents = <<>> THEN <<>>
  ELSE LET doc == Head(documents)
           rest == _filter_new_documents_capped(st, Tail(documents))
           updated_at == PyOr(doc.updated_at, doc.created_at)
       IN  IF Falsy(doc.id) THEN rest
           ELSE IF doc.id \in DOMAIN st.failed_documents /\ st.failed_documents[doc.id].attempts >= 2 THEN rest
           ELSE IF ~is_document_seen(st, doc.id) THEN <<doc>> \o rest
           ELSE IF is_document_updated(st, doc.id, updated_at) THEN <<doc>> \o rest
           ELSE rest

RECURSIVE _filter_new_documents(_, _)
_filter_new_documents(st, documents) ==
  IF documents = <<>> THEN <<>>
  ELSE LET doc == Head(documents)
           rest == _filter_new_documents(st, Tail(documents))
           updated_at == PyOr(doc.updated_at, doc.created_at)
       IN  IF Falsy(doc.id) THEN rest
           ELSE IF ~is_document_seen(st, doc.id) THEN <<doc>> \o rest
           ELSE IF is_document_updated(st, doc.id, updated_at) THEN <<doc>> \o rest
           ELSE rest

(* ------------------------------ the remote side ------------------------ *)
\* configured_folders = self.config.granola.folders
configured_folders == granola_folders

\* what the remote side can hold: folders and the ids their lists name
\* (None: a document without an id)
Layouts ==
  { << [title |-> "A", documents |-> <<"d1", "d2">>], [title |-> "B", documents |-> <<"d2">>] >>,
    << [title |-> "A", documents |-> <<"d1", "d1">>], [title |-> "OTHER", documents |-> <<"d2">>] >>,
    << [title |-> "B", documents |-> <<None, "d1", "d2">>] >> }

\* the updated_at values the remote side gives a document (None: the field is absent)
Versions == {None, "t1"}

\* GranolaClient.get_folders, when it does not raise
get_folders == [i \in 1..Len(layout) |-> [title |-> layout[i].title, documents |-> [j \in 1..Len(layout[i].documents) |-> Doc(layout[i].documents[j], IF layout[i].documents[j] \in Ids THEN version[layout[i].documents[j]] ELSE None)]]]

\* folder_lookup = {f["title"]: f for f in all_folders}: the last folder of a title wins
InLookup(all_folders, name) == \E i \in 1..Len(all_folders) : all_folders[i].title = name

folder_lookup(all_folders, name) == all_folders[CHOOSE i \in 1..Len(all_folders) : all_folders[i].title = name /\ \A j \in 1..Len(all_folders) : all_folders[j].title = name => j <= i]

(* ------------------------------ SyncService ---------------------------- *)
NewSummary == [folders_checked |-> Len(configured_folders), documents_found |-> 0, documents_new |-> 0, documents_synced |-> 0, documents_failed |-> 0, by_folder |-> EmptyMap]

NoFolderSummary == [total |-> 0, new |-> 0, synced |-> 0, failed |-> 0, documents |-> <<>>]

\* the entry _sync_documents appends to summary["documents"]
Entry(doc, action) == [id |-> doc.id, title |-> IF doc.title = None THEN "Untitled" ELSE doc.title, action |-> action]

\* the merge as it would be if the failures were left out of the cycle's total
Merge_forgets_failed(sm, name, fs) == [sm EXCEPT !.by_folder = Put(@, name, fs), !.documents_new = @ + fs.new, !.documents_synced = @ + fs.synced]

\* sync_once lines 111-114: a folder's summary is merged into the cycle's
Merge(sm, name, fs) == [sm EXCEPT !.by_folder = Put(@, name, fs), !.documents_new = @ + fs.new, !.documents_synced = @ + fs.synced, !.documents_failed = @ + fs.failed]

\* the set of elements of a sequence
Range(s) == {s[i] : i \in 1..Len(s)}

InCycle == pc \in {"fetch", "folder", "doc", "done"}

cfgVars == <<layout, batch_size, granola_folders>>
procVars == <<retry_attempts, include_transcript, ppc, tfetch, transcript, payload, headers, attempt, posts, last_error, send_raised, pres>>
fileVars == <<disk, shape, fpc, opres, atsave, prev>>
fnVars == <<pin, pout>>
ioVars == <<fileVars, fnVars>>
pureVars == <<fdocs, fstate, fresult, procVars, ioVars>>
stopVars == <<stopCalled, stopMid, stopEarly>>
envVars == <<version, events>>
localVars == <<fi, new_docs, queue, folder_summary>>

\* a direct call of sync_once(dry_run=d), as the sync-once command makes
SyncOnceCall(d) ==
  /\ pc = "init"
  /\ clock < MaxCycles
  /\ mode' = "once"
  /\ dry_run' = d
  /\ pc' = "fetch"
  /\ summary' = NewSummary
  /\ result' = "running"
  /\ clock' = clock + 1
  /\ log' = <<>>
  /\ writes' = 0
  /\ deferred' = {}
  /\ before' = state
  /\ UNCHANGED <<cfgVars, pureVars, stopVars, envVars, localVars, state, file, running, delivered>>

\* run(): self._running = True, then the loop
Run ==
  /\ pc = "init"
  /\ running' = TRUE
  /\ mode' = "loop"
  /\ pc' = "check"
  /\ stopCalled' = FALSE
  /\ stopMid' = FALSE
  /\ UNCHANGED <<cfgVars, pureVars, envVars, localVars, state, file, dry_run, summary, result, clock, log, delivered, writes, deferred, before, stopEarly>>

\* run() as it would be with `while True:`
LoopCycle_unconditional ==
  /\ pc = "check"
  /\ clock < MaxCycles
  /\ dry_run' = FALSE
  /\ pc' = "fetch"
  /\ summary' = NewSummary
  /\ result' = "running"
  /\ clock' = clock + 1
  /\ log' = <<>>
  /\ writes' = 0
  /\ deferred' = {}
  /\ before' = state
  /\ UNCHANGED <<cfgVars, pureVars, stopVars, envVars, localVars, state, file, running, mode, delivered>>

\* run(): `while self._running:` is true, sync_once() is called
LoopCycle ==
  /\ pc = "check"
  /\ running
  /\ clock < MaxCycles
  /\ dry_run' = FALSE
  /\ pc' = "fetch"
  /\ summary' = NewSummary
  /\ result' = "running"
  /\ clock' = clock + 1
  /\ log' = <<>>
  /\ writes' = 0
  /\ deferred' = {}
  /\ before' = state
  /\ UNCHANGED <<cfgVars, pureVars, stopVars, envVars, localVars, state, file, running, mode, delivered>>

\* run(): `while self._running:` is false, the loop ends and close() runs
LoopExit ==
  /\ pc = "check"
  /\ ~running
  /\ pc' = "stopped"
  /\ UNCHANGED <<cfgVars, pureVars, stopVars, envVars, localVars, state, file, running, mode, dry_run, summary, result, clock, log, delivered, writes, deferred, before>>

\* where control goes when sync_once ends: run() sleeps, a direct caller gets the outcome
AfterCycle == IF mode = "loop" THEN "sleep" ELSE "init"

\* sync_once line 84: get_folders returns
GetFoldersOk ==
  /\ pc = "fetch"
  /\ pc' = "folder"
  /\ fi' = 1
  /\ UNCHANGED <<cfgVars, pureVars, stopVars, envVars, new_docs, queue, folder_summary, state, file, running, mode, dry_run, summary, result, clock, log, delivered, writes, deferred, before>>

\* sync_once as it would be if the save sat in a finally block
GetFoldersRaise_saves ==
  /\ pc = "fetch"
  /\ pc' = "done"
  /\ result' = "raised"
  /\ state' = [state EXCEPT !.last_sync = clock]
  /\ file' = [exists |-> TRUE, data |-> [state EXCEPT !.last_sync = clock]]
  /\ writes' = writes + 1
  /\ UNCHANGED <<cfgVars, pureVars, stopVars, envVars, localVars, running, mode, dry_run, summary, clock, log, delivered, deferred, before>>

\* sync_once line 84: get_folders raises; lines 129-131 log and re-raise,
\* run() lines 54-55 catch it
GetFoldersRaise ==
  /\ pc = "fetch"
  /\ pc' = "done"
  /\ result' = "raised"
  /\ UNCHANGED <<cfgVars, pureVars, stopVars, envVars, localVars, state, file, running, mode, dry_run, summary, clock, log, delivered, writes, deferred, before>>

\* sync_once as it would be if a configured folder that is not found raised
FolderStep_unmatched_raises ==
  /\ pc = "folder"
  /\ fi <= Len(configured_folders)
  /\ LET name == configured_folders[fi]
         all_folders == get_folders
     IN  IF ~InLookup(all_folders, name)
         THEN /\ pc' = "done"
              /\ result' = "raised"
              /\ new_docs' = <<>>
              /\ UNCHANGED <<summary, fi, queue, folder_summary, deferred>>
         ELSE LET documents == folder_lookup(all_folders, name).documents
                  found == [summary EXCEPT !.documents_found = @ + Len(documents)]
                  nd == _filter_new_documents(state, documents)
                  batch == SliceTo(nd, batch_size)
                  fs == [total |-> Len(documents), new |-> Len(nd), synced |-> 0, failed |-> 0, documents |-> <<>>]
              IN  /\ UNCHANGED result
                  /\ deferred' = deferred \cup {[folder |-> name, doc |-> nd[i]] : i \in (Len(batch) + 1)..Len(nd)}
                  /\ new_docs' = nd
                  /\ IF dry_run
                     THEN /\ summary' = Merge(found, name, [fs EXCEPT !.synced = Len(batch), !.documents = [i \in 1..Len(batch) |-> Entry(batch[i], "would_sync")]])
                          /\ fi' = fi + 1
                          /\ UNCHANGED <<pc, queue, folder_summary>>
                     ELSE IF batch = <<>>
                     THEN /\ summary' = Merge(found, name, fs)
                          /\ fi' = fi + 1
                          /\ UNCHANGED <<pc, queue, folder_summary>>
                     ELSE /\ summary' = found
                          /\ queue' = batch
                          /\ folder_summary' = fs
                          /\ pc' = "doc"
                          /\ UNCHANGED fi
  /\ UNCHANGED <<cfgVars, pureVars, stopVars, envVars, state, file, running, mode, dry_run, clock, log, delivered, writes, before>>

\* sync_once lines 90-114 for configured folder fi, up to the first await:
\* the lookup, the filter, the batch cut and, in a dry run, the whole folder
FolderStep ==
  /\ pc = "folder"
  /\ fi <= Len(configured_folders)
  /\ LET name == configured_folders[fi]
         all_folders == get_folders
     IN  IF ~InLookup(all_folders, name)
         THEN /\ summary' = [summary EXCEPT !.by_folder = Put(@, name, NoFolderSummary)]
              /\ fi' = fi + 1
              /\ new_docs' = <<>>
              /\ UNCHANGED <<pc, queue, folder_summary, deferred>>
         ELSE LET documents == folder_lookup(all_folders, name).documents
                  found == [summary EXCEPT !.documents_found = @ + Len(documents)]
                  nd == _filter_new_documents(state, documents)
                  batch == SliceTo(nd, batch_size)
                  fs == [total |-> Len(documents), new |-> Len(nd), synced |-> 0, failed |-> 0, documents |-> <<>>]
              IN  /\ deferred' = deferred \cup {[folder |-> name, doc |-> nd[i]] : i \in (Len(batch) + 1)..Len(nd)}
                  /\ new_docs' = nd
                  /\ IF dry_run
                     THEN /\ summary' = Merge(found, name, [fs EXCEPT !.synced = Len(batch), !.documents = [i \in 1..Len(batch) |-> Entry(batch[i], "would_sync")]])
                          /\ fi' = fi + 1
                          /\ UNCHANGED <<pc, queue, folder_summary>>
                     ELSE IF batch = <<>>
                     THEN /\ summary' = Merge(found, name, fs)
                          /\ fi' = fi + 1
                          /\ UNCHANGED <<pc, queue, folder_summary>>
                     ELSE /\ summary' = found
                          /\ queue' = batch
                          /\ folder_summary' = fs
                          /\ pc' = "doc"
                          /\ UNCHANGED fi
  /\ UNCHANGED <<cfgVars, pureVars, stopVars, envVars, state, file, running, mode, dry_run, result, clock, log, delivered, writes, before>>

\* what _process_document can meet: the send succeeds, the send raises (after
\* its retries), or _build_payload raises before any send
Outcomes == {"ok", "send_error", "build_error"}

\* _process_document as it would be if a failed send were not noticed
_process_document_unchecked_send(st, doc, folder_name, o, now) ==
  IF o = "build_error" THEN mark_failed(st, doc.id, o, folder_name, doc, now)
  ELSE mark_synced(st, doc.id, doc, folder_name, now)

\* _process_document lines 238-271: the state after the document met outcome o
_process_document(st, doc, folder_name, o, now) ==
  IF o = "ok" THEN mark_synced(st, doc.id, doc, folder_name, now)
  ELSE mark_failed(st, doc.id, o, folder_name, doc, now)

\* _sync_documents as it would be if _process_document let a failure escape
DocStep_failure_escapes(o) ==
  /\ pc = "doc"
  /\ state' = _process_document(state, Head(queue), configured_folders[fi], o, clock)
  /\ log' = IF o = "build_error" THEN log ELSE Append(log, [id |-> Head(queue).id, marker |-> Marker(Head(queue)), ok |-> (o = "ok")])
  /\ delivered' = IF o = "ok" THEN delivered \cup {<<Head(queue).id, Marker(Head(queue))>>} ELSE delivered
  /\ IF o = "ok"
     THEN /\ queue' = Tail(queue)
          /\ folder_summary' = IF Tail(queue) = <<>> THEN NoFolderSummary ELSE [folder_summary EXCEPT !.documents = Append(@, Entry(Head(queue), "synced")), !.synced = @ + 1]
          /\ summary' = IF Tail(queue) = <<>> THEN Merge(summary, configured_folders[fi], [folder_summary EXCEPT !.documents = Append(@, Entry(Head(queue), "synced")), !.synced = @ + 1]) ELSE summary
          /\ new_docs' = IF Tail(queue) = <<>> THEN <<>> ELSE new_docs
          /\ fi' = IF Tail(queue) = <<>> THEN fi + 1 ELSE fi
          /\ pc' = IF Tail(queue) = <<>> THEN "folder" ELSE pc
          /\ UNCHANGED result
     ELSE /\ pc' = "done"
          /\ result' = "raised"
          /\ UNCHANGED <<queue, folder_summary, summary, new_docs, fi>>
  /\ UNCHANGED <<cfgVars, pureVars, stopVars, envVars, file, running, mode, dry_run, clock, writes, deferred, before>>

\* _sync_documents lines 172-190 for the next document of the batch
DocStep(o) ==
  /\ pc = "doc"
  /\ LET doc == Head(queue)
         name == configured_folders[fi]
         fs == [folder_summary EXCEPT !.documents = Append(@, Entry(doc, IF o = "ok" THEN "synced" ELSE "failed")),
                                      !.synced = IF o = "ok" THEN @ + 1 ELSE @,
                                      !.failed = IF o = "ok" THEN @ ELSE @ + 1]
     IN  /\ state' = _process_document(state, doc, name, o, clock)
         /\ log' = IF o = "build_error" THEN log ELSE Append(log, [id |-> doc.id, marker |-> Marker(doc), ok |-> (o = "ok")])
         /\ delivered' = IF o = "ok" THEN delivered \cup {<<doc.id, Marker(doc)>>} ELSE delivered
         /\ queue' = Tail(queue)
         /\ IF Tail(queue) = <<>>
            THEN /\ summary' = Merge(summary, name, fs)
                 /\ folder_summary' = NoFolderSummary
                 /\ new_docs' = <<>>
                 /\ fi' = fi + 1
                 /\ pc' = "folder"
            ELSE /\ folder_summary' = fs
                 /\ UNCHANGED <<summary, new_docs, fi, pc>>
  /\ UNCHANGED <<cfgVars, pureVars, stopVars, envVars, file, running, mode, dry_run, result, clock, writes, deferred, before>>

\* sync_once as it would be if the save did not look at dry_run
Finish_always_saves ==
  /\ pc = "folder"
  /\ fi > Len(configured_folders)
  /\ state' = SavedState(state, clock)
  /\ file' = [exists |-> TRUE, data |-> SavedState(state, clock)]
  /\ writes' = writes + 1
  /\ result' = "returned"
  /\ pc' = "done"
  /\ fi' = 0
  /\ UNCHANGED <<cfgVars, pureVars, stopVars, envVars, new_docs, queue, folder_summary, running, mode, dry_run, summary, clock, log, delivered, deferred, before>>

\* sync_once lines 116-133: the state is saved (unless dry_run) and the summary returned
Finish ==
  /\ pc = "folder"
  /\ fi > Len(configured_folders)
  /\ IF dry_run
     THEN UNCHANGED <<state, file, writes>>
     ELSE /\ state' = SavedState(state, clock)
          /\ file' = [exists |-> TRUE, data |-> SavedState(state, clock)]
          /\ writes' = writes + 1
  /\ result' = "returned"
  /\ pc' = "done"
  /\ fi' = 0
  /\ UNCHANGED <<cfgVars, pureVars, stopVars, envVars, new_docs, queue, folder_summary, running, mode, dry_run, summary, clock, log, delivered, deferred, before>>

\* run() as it would be without the try/except around sync_once
Return_error_ends_loop ==
  /\ pc = "done"
  /\ pc' = IF mode = "loop" THEN (IF result = "raised" THEN "stopped" ELSE "sleep") ELSE "init"
  /\ summary' = NewSummary
  /\ result' = "none"
  /\ log' = <<>>
  /\ writes' = 0
  /\ deferred' = {}
  /\ before' = state
  /\ dry_run' = FALSE
  /\ new_docs' = <<>>
  /\ UNCHANGED <<cfgVars, pureVars, stopVars, envVars, fi, queue, folder_summary, state, file, running, mode, clock, delivered>>

\* the caller takes the outcome of sync_once (the summary, or the exception):
\* run() goes on to its sleep, a direct caller is done with the call
Return ==
  /\ pc = "done"
  /\ pc' = AfterCycle
  /\ summary' = NewSummary
  /\ result' = "none"
  /\ log' = <<>>
  /\ writes' = 0
  /\ deferred' = {}
  /\ before' = state
  /\ dry_run' = FALSE
  /\ new_docs' = <<>>
  /\ UNCHANGED <<cfgVars, pureVars, stopVars, envVars, fi, queue, folder_summary, state, file, running, mode, clock, delivered>>

\* run() line 57: asyncio.sleep(interval) returns
Sleep ==
  /\ pc = "sleep"
  /\ pc' = "check"
  /\ UNCHANGED <<cfgVars, pureVars, stopVars, envVars, localVars, state, file, running, mode, dry_run, summary, result, clock, log, delivered, writes, deferred, before>>

\* stop(), called from outside the loop's task at any await of it (or before run())
Stop ==
  /\ mode = "loop"
  /\ pc \in {"check", "fetch", "folder", "doc", "done", "sleep"}
  /\ running' = FALSE
  /\ stopCalled' = TRUE
  /\ stopMid' = (stopMid \/ (mode = "loop" /\ InCycle))
  /\ UNCHANGED <<cfgVars, pureVars, envVars, localVars, state, file, pc, mode, dry_run, summary, result, clock, log, delivered, writes, deferred, before, stopEarly>>

\* stop(), called on the constructed service before run() has executed its
\* first statement (run() called later, or scheduled as a task and not yet
\* started): self._running = False
StopBeforeRun ==
  /\ pc = "init"
  /\ mode = "once"
  /\ ~stopEarly
  /\ running' = FALSE
  /\ stopEarly' = TRUE
  /\ UNCHANGED <<cfgVars, pureVars, envVars, localVars, state, file, pc, mode, dry_run, summary, result, clock, log, delivered, writes, deferred, before, stopCalled, stopMid>>

\* the process ends here (killed or exited) and a new one is started: a new
\* SyncService whose StateManager loads the state file
Restart ==
  /\ events < MaxEvents
  /\ events' = events + 1
  /\ state' = Load(file)
  /\ running' = FALSE
  /\ pc' = "init"
  /\ mode' = "once"
  /\ dry_run' = FALSE
  /\ fi' = 0
  /\ new_docs' = <<>>
  /\ queue' = <<>>
  /\ folder_summary' = NoFolderSummary
  /\ summary' = NewSummary
  /\ result' = "none"
  /\ log' = <<>>
  /\ writes' = 0
  /\ deferred' = {}
  /\ before' = Load(file)
  /\ stopCalled' = FALSE
  /\ stopMid' = FALSE
  /\ stopEarly' = FALSE
  /\ UNCHANGED <<cfgVars, pureVars, version, file, clock, delivered>>

\* the remote side changes a document's updated_at. sync_once reads the remote
\* documents once, at get_folders, so a change made during a cycle shows in
\* the next one: it is taken between cycles.
RemoteUpdate(id, v) ==
  /\ ~InCycle
  /\ events < MaxEvents
  /\ v # version[id]
  /\ version' = [version EXCEPT ![id] = v]
  /\ events' = events + 1
  /\ UNCHANGED <<cfgVars, pureVars, stopVars, localVars, state, file, running, pc, mode, dry_run, summary, result, clock, log, delivered, writes, deferred, before>>

BatchSizes == (0 - 1)..MaxBatch

\* Python None where the other values are lists or dicts
NoTranscript == [is_none |-> TRUE, segments |-> <<>>]
NoPayload == [note_id |-> None]
NoError == [kind |-> "none", code |-> 0]
NoHeaders == [X_Granola_Signature |-> <<>>]

\* no _process_document call has been made
ProcIdle ==
  /\ ppc = "idle"
  /\ tfetch = "none"
  /\ transcript = NoTranscript
  /\ payload = NoPayload
  /\ headers = NoHeaders
  /\ attempt = 0
  /\ posts = <<>>
  /\ last_error = NoError
  /\ send_raised = NoError
  /\ pres = "none"

\* no state file as text, no process on it
NoDisk == [exists |-> FALSE, isdir |-> FALSE, text |-> <<>>]

Unset == [done |-> FALSE, value |-> <<>>]

FileIdle ==
  /\ disk = NoDisk
  /\ shape = "dict"
  /\ fpc = "down"
  /\ opres = "none"
  /\ atsave = Unset
  /\ prev = NoDisk

\* no pure function has been called
NoCall == [fn |-> "none", arg |-> <<>>]
NoOut == [done |-> FALSE, raised |-> "none", value |-> <<>>]

FnIdle ==
  /\ pin = NoCall
  /\ pout = NoOut

\* the service right after construction on an empty directory, nothing called yet
ServiceInit ==
  /\ version = [id \in Ids |-> None]
  /\ state = _default_state
  /\ file = NoFile
  /\ running = FALSE
  /\ pc = "init"
  /\ mode = "once"
  /\ dry_run = FALSE
  /\ fi = 0
  /\ new_docs = <<>>
  /\ queue = <<>>
  /\ folder_summary = NoFolderSummary
  /\ summary = NewSummary
  /\ result = "none"
  /\ clock = 0
  /\ events = 0
  /\ log = <<>>
  /\ delivered = {}
  /\ writes = 0
  /\ deferred = {}
  /\ before = _default_state
  /\ stopCalled = FALSE
  /\ stopMid = FALSE
  /\ stopEarly = FALSE
  /\ retry_attempts = 3
  /\ include_transcript = TRUE
  /\ ProcIdle

Init ==
  /\ layout \in Layouts
  /\ batch_size \in BatchSizes
  /\ granola_folders = <<"A", "B">>
  /\ ServiceInit
  /\ FileIdle
  /\ FnIdle
  /\ fdocs = <<>>
  /\ fstate = _default_state
  /\ fresult = Unset

\* cycles called directly (live or dry), restarts, remote changes
Next ==
  \/ \E d \in BOOLEAN : SyncOnceCall(d)
  \/ GetFoldersOk
  \/ GetFoldersRaise
  \/ FolderStep
  \/ \E o \in Outcomes : DocStep(o)
  \/ Finish
  \/ Return
  \/ Restart
  \/ \E id \in Ids, v \in Versions : RemoteUpdate(id, v)

Spec == Init /\ [][Next]_vars

\* the same service under a configuration whose folders list names a folder
\* twice (the list is not validated)
RepeatInit ==
  /\ layout \in Layouts
  /\ batch_size \in BatchSizes
  /\ granola_folders = <<"A", "A">>
  /\ ServiceInit
  /\ FileIdle
  /\ FnIdle
  /\ fdocs = <<>>
  /\ fstate = _default_state
  /\ fresult = Unset

RepeatSpec == RepeatInit /\ [][Next]_vars

\* the poll loop: run(), its cycles, stop()
LoopNext ==
  \/ Run
  \/ LoopCycle
  \/ LoopExit
  \/ GetFoldersOk
  \/ GetFoldersRaise
  \/ FolderStep
  \/ \E o \in Outcomes : DocStep(o)
  \/ Finish
  \/ Return
  \/ Sleep
  \/ Stop
  \/ StopBeforeRun

LoopSpec == Init /\ [][LoopNext]_vars

\* the steps run() takes by itself: the event loop resumes the coroutine
\* whenever the call it awaits (get_folders, a send, the sleep) ends, and
\* each of these calls ends (the HTTP clients have timeouts)
LoopSteps ==
  \/ LoopCycle
  \/ LoopExit
  \/ GetFoldersOk
  \/ GetFoldersRaise
  \/ FolderStep
  \/ \E o \in Outcomes : DocStep(o)
  \/ Finish
  \/ Return
  \/ Sleep

FairLoopSpec == LoopSpec /\ WF_vars(LoopSteps)

\* the poll loop left to itself on a fixed catalog, with a positive
\* batch_size, a remote side that answers and webhooks that are accepted:
\* run() is called and nothing stops it
ConvergeInit == Init /\ batch_size > 0

ConvergeNext ==
  \/ Run
  \/ LoopCycle
  \/ GetFoldersOk
  \/ FolderStep
  \/ DocStep("ok")
  \/ Finish
  \/ Return
  \/ Sleep

ConvergeSpec == ConvergeInit /\ [][ConvergeNext]_vars /\ WF_vars(ConvergeNext)

\* the same loop when a webhook may be refused: a send succeeds or raises
\* after its retries
RetryNext ==
  \/ Run
  \/ LoopCycle
  \/ GetFoldersOk
  \/ FolderStep
  \/ \E o \in {"ok", "send_error"} : DocStep(o)
  \/ Finish
  \/ Return
  \/ Sleep

RetrySpec == ConvergeInit /\ [][RetryNext]_vars /\ WF_vars(RetryNext)

(* ----------------- the change detector on its own ---------------------- *)
\* documents as the remote side may list them: with or without an id, with
\* updated_at present, absent or empty, with or without created_at
DocUniverse == {[id |-> i, title |-> "Meeting", updated_at |-> p[1], created_at |-> p[2]] : i \in {None, "", "d1", "d2"}, p \in {<<None, "t0">>, <<"t1", "t0">>, <<"", "t1">>, <<None, None>>}}

SeqsUpTo(S, n) == UNION {[1..k -> S] : k \in 0..n}

SeenRecord(l) == [title |-> "Meeting", folder_name |-> "A", first_seen |-> 1, last_updated |-> l, synced_at |-> 1, webhook_status |-> "success"]

\* seen_documents as mark_synced can leave it for the ids of DocUniverse
SeenMaps == {m \in UNION {[D -> {SeenRecord(l) : l \in {None, "t0", "t1"}}] : D \in SUBSET Ids} : "d2" \in DOMAIN m => m["d2"].last_updated = "t1"}

\* the change detector has not been called
NoSelection == [done |-> FALSE, value |-> <<>>, calls |-> 0]

FilterInit ==
  /\ layout = <<>>
  /\ batch_size = 0
  /\ granola_folders = <<"A", "B">>
  /\ ServiceInit
  /\ FileIdle
  /\ FnIdle
  /\ fdocs \in SeqsUpTo(DocUniverse, MaxLen)
  /\ fstate \in {[_default_state EXCEPT !.seen_documents = m] : m \in SeenMaps}
  /\ fresult = NoSelection

\* a call of the change detector as it would be if it recorded what it selected
filter_call_marks(st, documents) ==
  LET sel == _filter_new_documents(st, documents)
  IN  [state |-> [st EXCEPT !.seen_documents = [id \in DOMAIN @ \cup {sel[i].id : i \in 1..Len(sel)} |-> SeenRecord("t1")]], value |-> sel]

\* a call of _filter_new_documents(documents) on a service whose state is
\* st: the state it leaves (it only reads, through is_document_seen and
\* is_document_updated) and the list it returns
filter_call(st, documents) == [state |-> st, value |-> _filter_new_documents(st, documents)]

\* one call of _filter_new_documents(fdocs) on a service whose state is fstate
FilterCall ==
  /\ fresult.calls < MaxCalls
  /\ fstate' = filter_call(fstate, fdocs).state
  /\ fresult' = [done |-> TRUE, value |-> filter_call(fstate, fdocs).value, calls |-> fresult.calls + 1]
  /\ UNCHANGED <<cfgVars, stopVars, envVars, localVars, state, file, running, pc, mode, dry_run, summary, result, clock, log, delivered, writes, deferred, before, fdocs, procVars, ioVars>>

FilterNext == FilterCall

FilterSpec == FilterInit /\ [][FilterNext]_vars

(* ------------------- the StateManager on its own ----------------------- *)
\* the variables of the service that the StateManager's methods do not touch
cycleVars == <<running, pc, mode, dry_run, summary, result, log, delivered, writes, deferred, before>>

\* a caller's document without a title (mark_failed's doc defaults to None)
NoDoc == [id |-> None, title |-> None, updated_at |-> None, created_at |-> None]

StateInit ==
  /\ layout = <<>>
  /\ batch_size = 0
  /\ granola_folders = <<"A", "B">>
  /\ ServiceInit
  /\ FileIdle
  /\ FnIdle
  /\ fdocs = <<>>
  /\ fstate = _default_state
  /\ fresult = Unset

\* mark_synced(doc_id, doc, folder_name) at time clock + 1
MarkSynced(id, v, f) ==
  /\ clock < MaxOps
  /\ clock' = clock + 1
  /\ state' = mark_synced(state, id, Doc(id, v), f, clock + 1)
  /\ UNCHANGED <<cfgVars, pureVars, stopVars, envVars, localVars, cycleVars, file>>

\* mark_failed(doc_id, error, folder_name, doc) at time clock + 1
MarkFailed(id, f, doc) ==
  /\ clock < MaxOps
  /\ clock' = clock + 1
  /\ state' = mark_failed(state, id, "error", f, doc, clock + 1)
  /\ UNCHANGED <<cfgVars, pureVars, stopVars, envVars, localVars, cycleVars, file>>

\* update_folder(folder_name, folder_id) at time clock + 1
UpdateFolder(f) ==
  /\ clock < MaxOps
  /\ clock' = clock + 1
  /\ state' = update_folder(state, f, "fid", clock + 1)
  /\ UNCHANGED <<cfgVars, pureVars, stopVars, envVars, localVars, cycleVars, file>>

\* save() at time clock + 1
Save ==
  /\ clock < MaxOps
  /\ clock' = clock + 1
  /\ state' = SavedState(state, clock + 1)
  /\ file' = [exists |-> TRUE, data |-> SavedState(state, clock + 1)]
  /\ UNCHANGED <<cfgVars, pureVars, stopVars, envVars, localVars, cycleVars>>

\* a new StateManager is constructed on the same file
Reload ==
  /\ clock < MaxOps
  /\ clock' = clock + 1
  /\ state' = Load(file)
  /\ UNCHANGED <<cfgVars, pureVars, stopVars, envVars, localVars, cycleVars, file>>

\* clear(): the in-memory state is reset, the file is not written
Clear ==
  /\ clock < MaxOps
  /\ clock' = clock + 1
  /\ state' = clear(state)
  /\ UNCHANGED <<cfgVars, pureVars, stopVars, envVars, localVars, cycleVars, file>>

StateNext ==
  \/ \E id \in Ids, v \in Versions, f \in Range(configured_folders) : MarkSynced(id, v, f)
  \/ \E id \in Ids, f \in Range(configured_folders) : \E doc \in {Doc(id, None), NoDoc} : MarkFailed(id, f, doc)
  \/ \E f \in Range(configured_folders) : UpdateFolder(f)
  \/ Save
  \/ Reload
  \/ Clear

StateSpec == StateInit /\ [][StateNext]_vars

(* ------------------ one _process_document call ------------------------- *)
\* what one POST can meet: a response with a status code, or httpx.RequestError
Responses == {[kind |-> "status", code |-> c] : c \in {200, 400, 429, 500}} \cup {[kind |-> "request_error", code |-> 0]}

\* response.raise_for_status() does not raise
IsSuccess(r) == r.kind = "status" /\ r.code >= 200 /\ r.code < 300

\* send as it would be without the re-raise on client errors
NoRetry_never(r) == FALSE

\* send, in `except httpx.HTTPStatusError`: a client error other than 429, re-raised at once
NoRetry(r) == r.kind = "status" /\ 400 <= r.code /\ r.code < 500 /\ r.code # 429

\* `for attempt in range(retry_attempts)` as it would be with one iteration less
MoreAttempts_one_less(a) == a + 2 < retry_attempts

\* `for attempt in range(retry_attempts)` as it would be with one iteration more
MoreAttempts_one_more(a) == a < retry_attempts

\* `for attempt in range(retry_attempts)` has an iteration after the one with index a
MoreAttempts(a) == a + 1 < retry_attempts

\* send, after the loop: `if last_error: raise last_error`, else RuntimeError
ExhaustedError(le) == IF le # NoError THEN le ELSE [kind |-> "RuntimeError", code |-> 0]

\* what get_transcript returns when it does not raise
Transcripts == {[is_none |-> FALSE, segments |-> sg] : sg \in {<<>>, <<[source |-> "microphone", text |-> "hi"]>>, <<[source |-> "microphone", text |-> "hi"], [source |-> "system", text |-> "yo"]>>}}

\* the transcript text as it would be if every segment were the user's own
transcript_text_all_me(tr) ==
  IF tr.is_none \/ tr.segments = <<>> THEN <<>>
  ELSE join([i \in 1..Len(tr.segments) |-> <<"Me", ": ">> \o (IF tr.segments[i].text = None THEN <<>> ELSE <<tr.segments[i].text>>)])

\* _build_payload lines 324-329: `if transcript:` then the "\n".join of
\* f"{'Me' if t.get('source') == 'microphone' else 'Them'}: {t.get('text', '')}"
transcript_text(tr) ==
  IF tr.is_none \/ tr.segments = <<>> THEN <<>>
  ELSE join([i \in 1..Len(tr.segments) |-> <<IF tr.segments[i].source = "microphone" THEN "Me" ELSE "Them", ": ">> \o (IF tr.segments[i].text = None THEN <<>> ELSE <<tr.segments[i].text>>)])

\* _build_payload for a document without people, attendees or panel content
_build_payload(doc, folder_name, tr) ==
  [source |-> "Granola",
   folder_name |-> folder_name,
   note_id |-> doc.id,
   title |-> IF doc.title = None THEN "Untitled" ELSE doc.title,
   meeting_started_at |-> doc.created_at,
   participants |-> <<>>,
   note_text |-> "",
   transcript |-> transcript_text(tr),
   url |-> <<"https://notes.granola.ai/d/", doc.id>>]

\* the zero byte
NUL == "NUL"

\* webhook secrets, as the sequence of their characters
Secrets == {<<>>, <<"k">>, <<"k", NUL>>, <<"j">>}

\* payload dicts, as their items in insertion order
SignPayloads == {<<>>, <<<<"a", "1">>>>, <<<<"a", "2">>>>, <<<<"a", "1">>, <<"b", "2">>>>, <<<<"b", "2">>, <<"a", "1">>>>}

RECURSIVE json_dumps_items(_, _)
json_dumps_items(data, i) ==
  IF i > Len(data) THEN <<>>
  ELSE (IF i > 1 THEN <<",">> ELSE <<>>) \o <<data[i][1], ":", data[i][2]>> \o json_dumps_items(data, i + 1)

\* json.dumps(payload, separators=(",", ":")).encode("utf-8")
json_dumps(data) == <<"{">> \o json_dumps_items(data, 1) \o <<"}">>

RECURSIVE hmac_key(_)
\* HMAC pads its key with zero bytes to the block size: keys that differ by
\* trailing zero bytes are the same key
hmac_key(key) == IF key # <<>> /\ key[Len(key)] = NUL THEN hmac_key(SubSeq(key, 1, Len(key) - 1)) ELSE key

\* hmac.new(key, msg, hashlib.sha256).hexdigest(): the digest is a function
\* of the padded key and the message, taken to be free of collisions
hmac_sha256(key, msg) == [key |-> hmac_key(key), msg |-> msg]

\* sign_payload as it would be if the digest did not depend on the secret
sign_payload_unkeyed(data, secret) == <<"sha256=", hmac_sha256(<<>>, json_dumps(data))>>

\* webhook.sign_payload
sign_payload(data, secret) == <<"sha256=", hmac_sha256(secret, json_dumps(data))>>

\* webhook.verify_signature: hmac.compare_digest(expected, signature)
verify_signature(data, secret, signature) == sign_payload(data, secret) = signature

\* config.webhook.secret, given to WebhookSender
webhook_secret == <<"k">>

\* the items of the payload dict, in the insertion order of its literal
payload_items(p) ==
  <<<<"source", p.source>>, <<"folder_name", p.folder_name>>, <<"note_id", p.note_id>>, <<"title", p.title>>, <<"meeting_started_at", p.meeting_started_at>>, <<"participants", p.participants>>, <<"note_text", p.note_text>>, <<"transcript", p.transcript>>, <<"url", p.url>>>>

\* send as it would be if it signed with another key than the configured one
send_headers_other_key(p) == [X_Granola_Signature |-> sign_payload(payload_items(p), <<"j">>)]

\* send lines 99-104: the signature of the payload under self.secret, and
\* the headers dict that carries it
send_headers(p) == [X_Granola_Signature |-> sign_payload(payload_items(p), webhook_secret)]

\* the document and the folder of the call
pdoc == Doc("d1", version["d1"])
pfolder == configured_folders[1]

\* the states the call can start from: the document is new, failed before, or
\* was synced before (with created_at as its marker)
ProcStates ==
  { _default_state,
    mark_failed(_default_state, "d1", "send_error", pfolder, Doc("d1", None), 1),
    mark_synced(_default_state, "d1", Doc("d1", None), pfolder, 1) }

ProcInit ==
  /\ layout = <<>>
  /\ batch_size = 0
  /\ granola_folders = <<"A", "B">>
  /\ version \in {[id \in Ids |-> IF id = "d1" THEN v ELSE None] : v \in Versions}
  /\ state \in ProcStates
  /\ before = state
  /\ file = NoFile
  /\ running = FALSE
  /\ pc = "init"
  /\ mode = "once"
  /\ dry_run = FALSE
  /\ fi = 0
  /\ new_docs = <<>>
  /\ queue = <<>>
  /\ folder_summary = NoFolderSummary
  /\ summary = NewSummary
  /\ result = "none"
  /\ clock = 2
  /\ events = 0
  /\ log = <<>>
  /\ delivered = {}
  /\ writes = 0
  /\ deferred = {}
  /\ stopCalled = FALSE
  /\ stopMid = FALSE
  /\ stopEarly = FALSE
  /\ fdocs = <<>>
  /\ fstate = _default_state
  /\ fresult = Unset
  /\ retry_attempts \in (0 - 1)..MaxRetry
  /\ include_transcript \in BOOLEAN
  /\ ProcIdle
  /\ FileIdle
  /\ FnIdle

\* _process_document ends with outcome o: lines 258-261 (mark_synced, return
\* True) or lines 263-271 (mark_failed, return False)
EndWith(o) ==
  /\ state' = _process_document(state, pdoc, pfolder, o, clock)
  /\ pres' = IF o = "ok" THEN "True" ELSE "False"
  /\ ppc' = "end"

\* lines 252-255 once the transcript is settled: _build_payload (build_ok:
\* it does not raise on this document), then send up to its first POST; a
\* send whose loop has no iteration raises at once
BuildAndSend(tr, build_ok) ==
  /\ transcript' = tr
  /\ UNCHANGED <<attempt, posts, last_error>>
  /\ IF ~build_ok
     THEN /\ EndWith("build_error")
          /\ UNCHANGED <<payload, headers, send_raised>>
     ELSE /\ payload' = _build_payload(pdoc, pfolder, tr)
          /\ headers' = send_headers(_build_payload(pdoc, pfolder, tr))
          /\ IF 0 < retry_attempts
             THEN /\ ppc' = "post"
                  /\ UNCHANGED <<state, pres, send_raised>>
             ELSE /\ send_raised' = ExhaustedError(last_error)
                  /\ EndWith("send_error")

\* _process_document is called: lines 230-243, up to get_transcript when
\* include_transcript is set
ProcessCall(build_ok) ==
  /\ ppc = "idle"
  /\ IF include_transcript
     THEN /\ ppc' = "transcript"
          /\ UNCHANGED <<state, transcript, payload, headers, attempt, posts, last_error, send_raised, pres>>
     ELSE BuildAndSend(NoTranscript, build_ok)
  /\ UNCHANGED <<cfgVars, stopVars, envVars, localVars, cycleVars, file, clock, ioVars, fdocs, fstate, fresult, retry_attempts, include_transcript, tfetch>>

\* get_transcript returns tr
TranscriptOk(tr, build_ok) ==
  /\ ppc = "transcript"
  /\ tfetch' = "ok"
  /\ BuildAndSend(tr, build_ok)
  /\ UNCHANGED <<cfgVars, stopVars, envVars, localVars, cycleVars, file, clock, ioVars, fdocs, fstate, fresult, retry_attempts, include_transcript>>

\* get_transcript as it would be if its failure reached the outer handler
TranscriptRaise_fatal(build_ok) ==
  /\ ppc = "transcript"
  /\ tfetch' = "raised"
  /\ EndWith("build_error")
  /\ UNCHANGED <<transcript, payload, headers, attempt, posts, last_error, send_raised>>
  /\ UNCHANGED <<cfgVars, stopVars, envVars, localVars, cycleVars, file, clock, ioVars, fdocs, fstate, fresult, retry_attempts, include_transcript>>

\* get_transcript raises: lines 244-249 log a warning, transcript stays None
TranscriptRaise(build_ok) ==
  /\ ppc = "transcript"
  /\ tfetch' = "raised"
  /\ BuildAndSend(NoTranscript, build_ok)
  /\ UNCHANGED <<cfgVars, stopVars, envVars, localVars, cycleVars, file, clock, ioVars, fdocs, fstate, fresult, retry_attempts, include_transcript>>

\* send: one POST is made and meets r (webhook.py lines 108-166 for one
\* iteration), then what follows up to the next await
Post(r) ==
  /\ ppc = "post"
  /\ posts' = Append(posts, [payload |-> payload, headers |-> headers, response |-> r])
  /\ IF IsSuccess(r)
     THEN /\ EndWith("ok")
          /\ UNCHANGED <<attempt, last_error, send_raised>>
     ELSE /\ last_error' = r
          /\ IF NoRetry(r)
             THEN /\ send_raised' = r
                  /\ EndWith("send_error")
                  /\ UNCHANGED attempt
             ELSE IF MoreAttempts(attempt)
             THEN /\ ppc' = "sleep"
                  /\ UNCHANGED <<state, pres, attempt, send_raised>>
             ELSE /\ send_raised' = ExhaustedError(r)
                  /\ EndWith("send_error")
                  /\ UNCHANGED attempt
  /\ UNCHANGED <<cfgVars, stopVars, envVars, localVars, cycleVars, file, clock, ioVars, fdocs, fstate, fresult, retry_attempts, include_transcript, tfetch, transcript, payload, headers>>

\* send: the sleep of retry_delay ends, the loop goes to its next iteration
RetrySleep ==
  /\ ppc = "sleep"
  /\ attempt' = attempt + 1
  /\ ppc' = "post"
  /\ UNCHANGED <<cfgVars, stopVars, envVars, localVars, cycleVars, file, clock, ioVars, fdocs, fstate, fresult, retry_attempts, include_transcript, tfetch, transcript, payload, headers, posts, last_error, send_raised, pres, state>>

ProcNext ==
  \/ \E b \in BOOLEAN : ProcessCall(b)
  \/ \E tr \in Transcripts, b \in BOOLEAN : TranscriptOk(tr, b)
  \/ \E b \in BOOLEAN : TranscriptRaise(b)
  \/ \E r \in Responses : Post(r)
  \/ RetrySleep

ProcSpec == ProcInit /\ [][ProcNext]_vars

(* ------------------- the state file as text ---------------------------- *)
\* one piece of the file's text: a brace, a bracket, a `"key": value` member
\* (k the key, v the value), text that is not JSON ("junk") or bytes that are
\* not UTF-8 ("xff")
Tok(k, v) == [k |-> k, v |-> v]

NotMember == {"{", "}", "[", "]", "junk", "xff"}

\* the keys of the state dict, in the order _default_state builds them
KeyOrder == <<"version", "last_sync", "folders", "seen_documents", "failed_documents", "stats">>

\* json.dump as it would be if it left the statistics out
json_dump_without_stats(d) ==
  LET members == SelectSeq(KeyOrder, LAMBDA k : k \in DOMAIN d /\ k # "stats")
  IN  <<Tok("{", 0)>> \o [i \in 1..Len(members) |-> Tok(members[i], d[members[i]])] \o <<Tok("}", 0)>>

\* json.dump(self._state, f, indent=2): the text written for the dict d, in
\* the pieces the file receives
json_dump(d) ==
  LET members == SelectSeq(KeyOrder, LAMBDA k : k \in DOMAIN d)
  IN  <<Tok("{", 0)>> \o [i \in 1..Len(members) |-> Tok(members[i], d[members[i]])] \o <<Tok("}", 0)>>

\* open(state_file) reads text: every byte must decode as UTF-8
Decodable(text) == \A i \in 1..Len(text) : text[i].k # "xff"

\* the text is the JSON list []
IsList(text) == Len(text) = 2 /\ text[1].k = "[" /\ text[2].k = "]"

\* the text is a JSON object: braces around members
IsObject(text) ==
  /\ Len(text) >= 2
  /\ text[1].k = "{"
  /\ text[Len(text)].k = "}"
  /\ \A i \in 2..(Len(text) - 1) : text[i].k \notin NotMember

\* json.load on the text of a JSON object: the dict of its members
json_load(text) ==
  [k \in {text[i].k : i \in 2..(Len(text) - 1)} |-> text[CHOOSE i \in 2..(Len(text) - 1) : text[i].k = k].v]

\* StateManager._load: what _state becomes (shape, data), or the exception
\* that leaves __init__ (raised)
_load(f) ==
  IF ~f.exists THEN [raised |-> "none", shape |-> "dict", data |-> _default_state]
  ELSE IF f.isdir THEN [raised |-> "none", shape |-> "dict", data |-> _default_state]
  ELSE IF ~Decodable(f.text) THEN [raised |-> "UnicodeDecodeError", shape |-> "dict", data |-> _default_state]
  ELSE IF IsList(f.text) THEN [raised |-> "none", shape |-> "list", data |-> <<>>]
  ELSE IF IsObject(f.text) THEN [raised |-> "none", shape |-> "dict", data |-> json_load(f.text)]
  ELSE [raised |-> "none", shape |-> "dict", data |-> _default_state]

\* self._state[k]: the exception the subscript raises, "none" when it gives a value
Subscript(sh, d, k) == IF sh = "list" THEN "TypeError" ELSE IF k \notin DOMAIN d THEN "KeyError" ELSE "none"

\* what a state file can hold before the service starts: nothing, a directory
\* in its place, text that is not JSON, no text, bytes that are not text, JSON
\* of another shape ([], {}, an object without the document maps), or a state
\* an earlier run saved
InitialDisks ==
  << NoDisk,
     [exists |-> TRUE, isdir |-> TRUE, text |-> <<>>],
     [exists |-> TRUE, isdir |-> FALSE, text |-> <<Tok("junk", 0)>>],
     [exists |-> TRUE, isdir |-> FALSE, text |-> <<>>],
     [exists |-> TRUE, isdir |-> FALSE, text |-> <<Tok("xff", 0)>>],
     [exists |-> TRUE, isdir |-> FALSE, text |-> <<Tok("[", 0), Tok("]", 0)>>],
     [exists |-> TRUE, isdir |-> FALSE, text |-> <<Tok("{", 0), Tok("}", 0)>>],
     [exists |-> TRUE, isdir |-> FALSE, text |-> <<Tok("{", 0), Tok("version", 1), Tok("}", 0)>>],
     [exists |-> TRUE, isdir |-> FALSE, text |-> json_dump(mark_synced(_default_state, "d1", Doc("d1", None), "A", 0))] >>

\* the variables the file operations leave alone
fileFrame == <<cfgVars, stopVars, envVars, localVars, cycleVars, file, fdocs, fstate, fresult, procVars, fnVars>>

FileInit ==
  /\ layout = <<>>
  /\ batch_size = 0
  /\ granola_folders = <<"A", "B">>
  /\ ServiceInit
  /\ fdocs = <<>>
  /\ fstate = _default_state
  /\ fresult = Unset
  /\ FnIdle
  /\ \E i \in 1..Len(InitialDisks) : disk = InitialDisks[i]
  /\ shape = "dict"
  /\ fpc = "down"
  /\ opres = "none"
  /\ atsave = Unset
  /\ prev = NoDisk

\* StateManager(state_file): __init__ sets the default state, then _load
Construct ==
  /\ fpc = "down"
  /\ LET l == _load(disk)
     IN  IF l.raised # "none"
         THEN /\ fpc' = "fatal"
              /\ opres' = l.raised
              /\ UNCHANGED <<state, shape>>
         ELSE /\ fpc' = "up"
              /\ opres' = "constructed"
              /\ state' = l.data
              /\ shape' = l.shape
  /\ UNCHANGED <<disk, atsave, prev, clock, fileFrame>>

\* is_document_seen(doc_id)
CallIsSeen(id) ==
  /\ fpc = "up"
  /\ opres' = IF Subscript(shape, state, "seen_documents") # "none" THEN Subscript(shape, state, "seen_documents")
              ELSE IF is_document_seen(state, id) THEN "True" ELSE "False"
  /\ UNCHANGED <<state, shape, fpc, disk, atsave, prev, clock, fileFrame>>

\* mark_synced(doc_id, doc, folder_name) at time clock + 1; its first
\* subscript is _state["seen_documents"]
CallMarkSynced(id) ==
  /\ fpc = "up"
  /\ clock < MaxOps
  /\ clock' = clock + 1
  /\ IF Subscript(shape, state, "seen_documents") # "none"
     THEN opres' = Subscript(shape, state, "seen_documents") /\ UNCHANGED state
     ELSE opres' = "ok" /\ state' = mark_synced(state, id, Doc(id, None), "A", clock + 1)
  /\ UNCHANGED <<shape, fpc, disk, atsave, prev, fileFrame>>

\* mark_failed(doc_id, error, folder_name, doc) at time clock + 1; its first
\* subscript is _state["failed_documents"]
CallMarkFailed(id) ==
  /\ fpc = "up"
  /\ clock < MaxOps
  /\ clock' = clock + 1
  /\ IF Subscript(shape, state, "failed_documents") # "none"
     THEN opres' = Subscript(shape, state, "failed_documents") /\ UNCHANGED state
     ELSE opres' = "ok" /\ state' = mark_failed(state, id, "error", "A", Doc(id, None), clock + 1)
  /\ UNCHANGED <<shape, fpc, disk, atsave, prev, fileFrame>>

\* save(), lines 59-64: last_sync is stamped, then open(state_file, "w")
\* empties the file (or raises, on a directory)
SaveOpen ==
  /\ fpc = "up"
  /\ clock < MaxOps
  /\ clock' = clock + 1
  /\ IF shape = "list"
     THEN /\ opres' = "TypeError"
          /\ UNCHANGED <<state, fpc, disk, atsave, prev>>
     ELSE /\ state' = Put(state, "last_sync", clock + 1)
          /\ IF disk.isdir
             THEN /\ opres' = "IsADirectoryError"
                  /\ UNCHANGED <<fpc, disk, atsave, prev>>
             ELSE /\ fpc' = "saving"
                  /\ prev' = disk
                  /\ disk' = [exists |-> TRUE, isdir |-> FALSE, text |-> <<>>]
                  /\ atsave' = Unset
                  /\ UNCHANGED opres
  /\ UNCHANGED <<shape, fileFrame>>

\* save(), line 65: the next piece of json.dump's output reaches the file
SaveWrite ==
  /\ fpc = "saving"
  /\ Len(disk.text) < Len(json_dump(state))
  /\ disk' = [disk EXCEPT !.text = Append(disk.text, json_dump(state)[Len(disk.text) + 1])]
  /\ UNCHANGED <<state, shape, fpc, opres, atsave, prev, clock, fileFrame>>

\* save(), lines 65-67: everything is written, the file is closed, save returns
SaveClose ==
  /\ fpc = "saving"
  /\ Len(disk.text) = Len(json_dump(state))
  /\ fpc' = "up"
  /\ opres' = "ok"
  /\ atsave' = [done |-> TRUE, value |-> state]
  /\ UNCHANGED <<state, shape, disk, prev, clock, fileFrame>>

\* the process ends (a signal, a crash, the machine going down), whatever it
\* was doing; its memory is gone, the file stays as it is
Kill ==
  /\ fpc \in {"up", "saving"}
  /\ fpc' = "down"
  /\ state' = _default_state
  /\ shape' = "dict"
  /\ opres' = "none"
  /\ UNCHANGED <<disk, atsave, prev, clock, fileFrame>>

FileNext ==
  \/ Construct
  \/ \E id \in Ids : CallIsSeen(id)
  \/ \E id \in Ids : CallMarkSynced(id)
  \/ \E id \in Ids : CallMarkFailed(id)
  \/ SaveOpen
  \/ SaveWrite
  \/ SaveClose
  \/ Kill

FileSpec == FileInit /\ [][FileNext]_vars

(* ------------------- pure functions on their own ----------------------- *)
\* a ProseMirror node; level 0: the node has no attrs.level
Node(type, level, text, content) == [type |-> type, level |-> level, text |-> text, content |-> content]

\* the content argument being {} and None
EmptyDict == Node("", 0, <<>>, <<>>)
NoneContent == Node("None", 0, <<>>, <<>>)

\* text nodes: a plain text, and a text that ends with a line break
TextNodes == {Node("text", 0, t, <<>>) : t \in {<<"x">>, <<"y", LF>>}}

Inlines == SeqsUpTo(TextNodes, MaxInline)

Paragraphs == {Node("paragraph", 0, <<>>, c) : c \in Inlines}

Headings == {Node("heading", l, <<>>, c) : l \in {0, 2}, c \in Inlines}

\* bulletList -> listItem -> paragraph -> text
BulletLists == {Node("bulletList", 0, <<>>, items) : items \in SeqsUpTo({Node("listItem", 0, <<>>, <<Node("paragraph", 0, <<>>, <<t>>)>>) : t \in TextNodes}, MaxInline)}

\* the rich-text documents a panel can hold, and the two empty contents
Contents == {Node("doc", 0, <<>>, b) : b \in SeqsUpTo(Paragraphs \cup Headings \cup BulletLists, MaxBlocks)} \cup {EmptyDict, NoneContent}

\* str.endswith("\n")
EndsWithLF(s) == s # <<>> /\ s[Len(s)] = LF

\* "#" * level
Hashes(level) == [i \in 1..level |-> "#"]

RECURSIVE _extract_text(_, _, _)
RECURSIVE extract_children(_, _, _, _)
RECURSIVE extract_numbered(_, _, _)

\* `for child in node.get("content", []): self._extract_text(child, lines, prefix)`, from child i on
extract_children(content, i, lines, prefix) ==
  IF i > Len(content) THEN lines
  ELSE extract_children(content, i + 1, _extract_text(content[i], lines, prefix), prefix)

\* the loop of an orderedList: child i gets the prefix "i. "
extract_numbered(content, i, lines) ==
  IF i > Len(content) THEN lines
  ELSE extract_numbered(content, i + 1, _extract_text(content[i], lines, <<ToString(i), ". ">>))

\* SyncService._extract_text: the list `lines` after the call
_extract_text(node, lines, prefix) ==
  IF node.type = "text"
  THEN IF lines # <<>> /\ ~EndsWithLF(lines[Len(lines)])
       THEN [lines EXCEPT ![Len(lines)] = @ \o node.text]
       ELSE Append(lines, prefix \o node.text)
  ELSE LET p == IF node.type = "heading" THEN Hashes(IF node.level = 0 THEN 1 ELSE node.level) \o <<" ">> ELSE prefix
       IN  IF node.type = "bulletList" THEN extract_children(node.content, 1, lines, <<"-", " ">>)
           ELSE IF node.type = "orderedList" THEN extract_numbered(node.content, 1, lines)
           ELSE IF node.type \in {"paragraph", "heading"}
           THEN extract_children(node.content, 1, IF lines # <<>> THEN Append(lines, <<>>) ELSE lines, p)
           ELSE extract_children(node.content, 1, lines, p)

\* SyncService._prosemirror_to_text
_prosemirror_to_text(content) ==
  IF content \in {EmptyDict, NoneContent} THEN <<>>
  ELSE join(_extract_text(content, <<>>, <<>>))

\* transcripts with segments whose source or text key may be missing
Segments == {[source |-> s, text |-> t] : s \in {"microphone", "system", None}, t \in {"hi", None}}

TranscriptInputs == {[is_none |-> FALSE, segments |-> sg] : sg \in SeqsUpTo(Segments, MaxSegments)} \cup {NoTranscript}

\* an entry of people.attendees or of people: a dict with some of the keys
\* display_name, name and email, or something that is not a dict
PersonEntries == {[isdict |-> TRUE, display_name |-> d, name |-> n, email |-> e] : d \in {None, "dan"}, n \in {None, "ann"}, e \in {None, "ann"}} \cup {[isdict |-> FALSE, display_name |-> None, name |-> None, email |-> None]}

\* doc["people"]: missing, null, a dict (whose attendees key is missing, null
\* or a list), or a list
PeopleValues ==
  {[kind |-> k, att |-> "missing", items |-> <<>>] : k \in {"missing", "null"}}
  \cup {[kind |-> "dict", att |-> a, items |-> <<>>] : a \in {"missing", "null"}}
  \cup {[kind |-> k, att |-> "list", items |-> l] : k \in {"dict", "list"}, l \in SeqsUpTo(PersonEntries, MaxPeople)}

\* doc["attendees"]: missing, null, or a list of strings and other values
AttendeesValues ==
  {[kind |-> k, items |-> <<>>] : k \in {"missing", "null"}}
  \cup {[kind |-> "list", items |-> l] : l \in SeqsUpTo({[isstr |-> TRUE, value |-> "ann"], [isstr |-> TRUE, value |-> "bob"], [isstr |-> FALSE, value |-> None]}, MaxPeople)}

RECURSIVE people_names(_, _, _, _)
\* the loops of lines 295-298 and 301-304 from entry i on: first and second
\* are the keys read, acc the participants so far
people_names(items, i, legacy, acc) ==
  IF acc.raised # "none" \/ i > Len(items) THEN acc
  ELSE IF ~items[i].isdict THEN [acc EXCEPT !.raised = "AttributeError"]
  ELSE LET name == IF legacy THEN PyOr(items[i].display_name, items[i].name) ELSE PyOr(items[i].name, items[i].email)
       IN  people_names(items, i + 1, legacy, IF Falsy(name) THEN acc ELSE [acc EXCEPT !.value = Append(@, name)])

RECURSIVE merge_attendees(_, _, _)
\* the loop of lines 307-309 from entry i on
merge_attendees(items, i, acc) ==
  IF i > Len(items) THEN acc
  ELSE merge_attendees(items, i + 1, IF items[i].isstr /\ items[i].value \notin Range(acc) THEN Append(acc, items[i].value) ELSE acc)

\* _build_payload lines 291-309: the participants, or the exception raised
participants(people, attendees) ==
  LET start == [raised |-> "none", value |-> <<>>]
      named == IF people.kind = "dict"
               THEN IF people.att = "null" THEN [start EXCEPT !.raised = "TypeError"]
                    ELSE people_names(people.items, 1, FALSE, start)
               ELSE IF people.kind = "list" THEN people_names(people.items, 1, TRUE, start)
               ELSE start
  IN  IF named.raised # "none" THEN named
      ELSE IF attendees.kind = "null" THEN [named EXCEPT !.raised = "TypeError"]
      ELSE [named EXCEPT !.value = merge_attendees(attendees.items, 1, @)]

\* the variables a pure function leaves alone
pureFrame == <<cfgVars, stopVars, envVars, localVars, cycleVars, state, file, clock, fdocs, fstate, fresult, procVars, fileVars>>

PureInit ==
  /\ layout = <<>>
  /\ batch_size = 0
  /\ granola_folders = <<"A", "B">>
  /\ ServiceInit
  /\ fdocs = <<>>
  /\ fstate = _default_state
  /\ fresult = Unset
  /\ FileIdle
  /\ pout = NoOut
  /\ \/ pin \in {[fn |-> "_prosemirror_to_text", arg |-> c] : c \in Contents}
     \/ pin \in {[fn |-> "transcript_text", arg |-> tr] : tr \in TranscriptInputs}
     \/ pin \in {[fn |-> "participants", arg |-> [people |-> p, attendees |-> a]] : p \in PeopleValues, a \in AttendeesValues}
     \/ pin \in {[fn |-> "sign_payload", arg |-> [payload |-> p, secret |-> s, other_payload |-> q, other_secret |-> t]] : p \in SignPayloads, q \in SignPayloads, s \in Secrets, t \in Secrets}

\* note_text = self._prosemirror_to_text(content)
CallProsemirror ==
  /\ ~pout.done
  /\ pin.fn = "_prosemirror_to_text"
  /\ pout' = [done |-> TRUE, raised |-> "none", value |-> _prosemirror_to_text(pin.arg)]
  /\ UNCHANGED <<pin, pureFrame>>

\* the transcript text of _build_payload
CallTranscriptText ==
  /\ ~pout.done
  /\ pin.fn = "transcript_text"
  /\ pout' = [done |-> TRUE, raised |-> "none", value |-> transcript_text(pin.arg)]
  /\ UNCHANGED <<pin, pureFrame>>

\* the participants of _build_payload
CallParticipants ==
  /\ ~pout.done
  /\ pin.fn = "participants"
  /\ pout' = [done |-> TRUE, raised |-> participants(pin.arg.people, pin.arg.attendees).raised, value |-> participants(pin.arg.people, pin.arg.attendees).value]
  /\ UNCHANGED <<pin, pureFrame>>

\* sign_payload on (payload, secret), twice, and on (other_payload,
\* other_secret); verify_signature of the first signature with each secret
CallSign ==
  /\ ~pout.done
  /\ pin.fn = "sign_payload"
  /\ pout' = [done |-> TRUE, raised |-> "none",
              value |-> [first |-> sign_payload(pin.arg.payload, pin.arg.secret),
                         again |-> sign_payload(pin.arg.payload, pin.arg.secret),
                         other |-> sign_payload(pin.arg.other_payload, pin.arg.other_secret),
                         verified |-> verify_signature(pin.arg.payload, pin.arg.secret, sign_payload(pin.arg.payload, pin.arg.secret)),
                         verified_other_secret |-> verify_signature(pin.arg.payload, pin.arg.other_secret, sign_payload(pin.arg.payload, pin.arg.secret))]]
  /\ UNCHANGED <<pin, pureFrame>>

PureNext ==
  \/ CallProsemirror
  \/ CallTranscriptText
  \/ CallParticipants
  \/ CallSign

PureSpec == PureInit /\ [][PureNext]_vars

(* ------------------------------ the claims ----------------------------- *)
\* the version marker as the claims word it: updated_at, and created_at when
\* updated_at is absent or empty
VersionMarker(doc) == IF doc.updated_at \in {None, ""} THEN doc.created_at ELSE doc.updated_at

\* a document the change detection has to select, given the state st
Eligible(st, doc) ==
  /\ doc.id \notin {None, ""}
  /\ \/ doc.id \notin DOMAIN st.seen_documents
     \/ st.seen_documents[doc.id].last_updated # VersionMarker(doc)

\* the places of the documents of a list that have to be selected
Kept(st, documents) == {i \in 1..Len(documents) : Eligible(st, documents[i])}

\* the document the remote side lists now under an id
Listed(id) == Doc(id, version[id])

\* the ids a cycle's summary reports with the given action
IdsWith(sm, action) == {e.id : e \in UNION {Range(sm.by_folder[f].documents) : f \in DOMAIN sm.by_folder} \cap {x \in UNION {Range(sm.by_folder[f].documents) : f \in DOMAIN sm.by_folder} : x.action = action}}

\* the ids a cycle has processed so far (in folders already merged and in the one under way)
Processed == {e.id : e \in UNION {Range(summary.by_folder[f].documents) : f \in DOMAIN summary.by_folder}} \cup {e.id : e \in Range(folder_summary.documents)}

\* new_docs is the selection just made for a folder and the state is still
\* the one the selection read
JustFiltered ==
  \/ pc = "doc" /\ folder_summary.documents = <<>>
  \/ /\ pc = "folder"
     /\ fi > 1
     /\ (dry_run \/ summary.by_folder[configured_folders[fi - 1]].documents = <<>>)

\* the folder JustFiltered speaks of
FilteredFolder == configured_folders[IF pc = "doc" THEN fi ELSE fi - 1]

\* the documents that folder lists (none when no remote folder has its title)
FilteredInput == IF InLookup(get_folders, FilteredFolder) THEN folder_lookup(get_folders, FilteredFolder).documents ELSE <<>>

\* a live cycle has returned its summary
LiveDone == pc = "done" /\ result = "returned" /\ ~dry_run

\* C1: _filter_new_documents returns exactly the documents of its input, in
\* input order, that have a non-empty id and are unseen or carry a version
\* marker other than the recorded last_updated; documents without an id are left out.
C1_ChangeDetection ==
  fresult.done =>
    LET K == Kept(fstate, fdocs)
    IN  /\ Len(fresult.value) = Cardinality(K)
        /\ \A i \in K : fresult.value[Cardinality({x \in K : x <= i})] = fdocs[i]

\* C1 witness: a list of three, a document without id first, then a seen and
\* unchanged one, then a seen one with a new marker: only the last is returned
C1_Witness ==
  /\ fresult.done
  /\ Len(fdocs) = 3
  /\ fdocs[1].id = None
  /\ fdocs[2].id = "d1" /\ ~Eligible(fstate, fdocs[2])
  /\ fdocs[3].id = "d2" /\ "d2" \in DOMAIN fstate.seen_documents /\ Eligible(fstate, fdocs[3])
  /\ fresult.value = <<fdocs[3]>>

\* C2 as stated: a document that was once delivered with marker V is not
\* selected in any later folder pass that presents it with marker V.
C2_Original ==
  JustFiltered =>
    \A i \in 1..Len(new_docs) : <<new_docs[i].id, VersionMarker(new_docs[i])>> \notin delivered

\* C2 amended: a document whose seen record holds marker V when a cycle
\* begins (V is the marker of its latest recorded sync) and which the remote
\* side presents with V is selected in no folder pass of that cycle and no
\* webhook is sent for it, in every cycle.
C2_Stable ==
  \A id \in Ids :
    (InCycle /\ id \in DOMAIN before.seen_documents /\ before.seen_documents[id].last_updated = VersionMarker(Listed(id)))
      => /\ \A i \in 1..Len(new_docs) : new_docs[i].id # id
         /\ \A i \in 1..Len(log) : log[i].id # id
         /\ id \notin Processed
         /\ state.seen_documents[id] = before.seen_documents[id]

\* C2 witness: a later live cycle has returned, d2 was delivered in an earlier
\* one and is listed with the same marker, and this cycle sent nothing for it
\* while it did send for another document
C2_Witness ==
  /\ LiveDone
  /\ clock >= 2
  /\ layout[1].documents = <<"d1", "d2">>
  /\ "d2" \in DOMAIN before.seen_documents
  /\ before.seen_documents["d2"].last_updated = VersionMarker(Listed("d2"))
  /\ <<"d2", VersionMarker(Listed("d2"))>> \in delivered
  /\ \A i \in 1..Len(log) : log[i].id # "d2"
  /\ log # <<>>

\* C3 as stated: a seen document presented with a new marker is reselected
\* exactly once for that change: after the live cycle that reselected and
\* processed it, it is not selected again while its marker stays.
C3_Original ==
  LiveDone =>
    \A id \in Processed :
      (id \in DOMAIN before.seen_documents /\ before.seen_documents[id].last_updated # VersionMarker(Listed(id)))
        => ~Eligible(state, Listed(id))

\* C3 amended: a seen document presented with a marker other than the
\* recorded one is selected in every folder pass that lists it, cycle after
\* cycle, until a delivery of it succeeds; once a live cycle has delivered
\* it, its record holds the new marker and it is not selected again while
\* that marker stays.
C3_Resync ==
  /\ JustFiltered =>
       \A i \in 1..Len(FilteredInput) :
         (FilteredInput[i].id \in DOMAIN state.seen_documents /\ state.seen_documents[FilteredInput[i].id].last_updated # VersionMarker(FilteredInput[i]))
           => FilteredInput[i] \in Range(new_docs)
  /\ LiveDone => \A id \in IdsWith(summary, "synced") : ~Eligible(state, Listed(id))

\* C3 witness: d1 was synced, its marker changed, a cycle reselected it and
\* the delivery failed, and the next cycle has reselected and delivered it
C3_Witness ==
  /\ LiveDone
  /\ clock = 3
  /\ "d1" \in DOMAIN before.seen_documents
  /\ "d1" \in DOMAIN before.failed_documents
  /\ before.seen_documents["d1"].last_updated # VersionMarker(Listed("d1"))
  /\ "d1" \in IdsWith(summary, "synced")
  /\ state.seen_documents["d1"].last_updated = VersionMarker(Listed("d1"))

BatchCount(n) == Len(SliceTo([i \in 1..n |-> i], batch_size))

\* every configured folder has its entry, and every document of every
\* folder's batch was processed
AllProcessed ==
  /\ DOMAIN summary.by_folder = Range(configured_folders)
  /\ \A f \in DOMAIN summary.by_folder : Len(summary.by_folder[f].documents) = BatchCount(summary.by_folder[f].new)

\* the state file was not written during the current cycle (a write stamps last_sync)
NoFileWrite == writes = 0 /\ (file.exists => file.data.last_sync < clock)

\* C5: starting from an empty state, every id in seen_documents, in memory
\* and in the saved file, had a successful webhook delivery, and its
\* last_updated is the marker of a delivered revision.
C5_SeenImpliesDelivered ==
  /\ \A id \in DOMAIN state.seen_documents : <<id, state.seen_documents[id].last_updated>> \in delivered
  /\ \A id \in DOMAIN Load(file).seen_documents : <<id, Load(file).seen_documents[id].last_updated>> \in delivered

\* C5 witness: after a restart that reloaded the file and a later cycle, both
\* documents are seen in memory and on disk and a failure is on record
C5_Witness ==
  /\ pc = "init"
  /\ events >= 1
  /\ clock >= 2
  /\ file.exists
  /\ DOMAIN file.data.seen_documents = Ids
  /\ DOMAIN state.seen_documents = Ids
  /\ state.stats.total_errors >= 1

\* C6: a dry-run cycle sends no webhook, leaves the in-memory state as it
\* was (so the documents it reports as would_sync are as seen or unseen as
\* before) and does not write the state file.
C6_DryRun ==
  (InCycle /\ dry_run) =>
    /\ log = <<>>
    /\ state = before
    /\ NoFileWrite
    /\ \A id \in IdsWith(summary, "would_sync") : is_document_seen(state, id) = is_document_seen(before, id)

\* C6 witness: a dry-run cycle has returned with two documents reported as
\* would_sync, both still unseen
C6_Witness ==
  /\ pc = "done"
  /\ dry_run
  /\ result = "returned"
  /\ summary.documents_synced = 2
  /\ IdsWith(summary, "would_sync") = Ids
  /\ \A id \in Ids : ~is_document_seen(state, id)

\* C7: in a live cycle a failed document is recorded with mark_failed and
\* nothing else stops: the other documents of the batch and the later
\* folders are processed, sync_once returns its summary (it raises only when
\* get_folders did, before any document), and the state is saved.
C7_FailureIsolation ==
  /\ (pc = "done" /\ result = "raised") => (log = <<>> /\ state = before /\ summary.by_folder = EmptyMap)
  /\ (InCycle /\ ~dry_run) => state.stats.total_errors = before.stats.total_errors + summary.documents_failed + folder_summary.failed
  /\ (pc = "doc" /\ folder_summary.failed > 0) => ENABLED DocStep("ok")
  /\ LiveDone =>
       /\ AllProcessed
       /\ \A id \in IdsWith(summary, "failed") \ IdsWith(summary, "synced") : id \in DOMAIN state.failed_documents
       /\ writes = 1
       /\ file = [exists |-> TRUE, data |-> state]

\* C7 witness: the first document of folder A failed; the second document of
\* A was still attempted (and failed too), folder B was still processed and
\* delivered its document, the summary was returned and the state saved
C7_Witness ==
  /\ LiveDone
  /\ layout[1].documents = <<"d1", "d2">>
  /\ Len(summary.by_folder["A"].documents) = 2
  /\ summary.by_folder["A"].documents[1].action = "failed"
  /\ summary.by_folder["A"].documents[2].action = "failed"
  /\ Len(summary.by_folder["B"].documents) = 1
  /\ summary.by_folder["B"].documents[1].action = "synced"
  /\ "d1" \in DOMAIN state.failed_documents
  /\ "d2" \in DOMAIN state.seen_documents
  /\ summary.documents_failed = 2
  /\ file.exists /\ file.data = state

\* C8: when get_folders raises, sync_once raises to its caller without a
\* summary, sends no webhook, leaves the in-memory state as it was and does
\* not write the state file; a cycle that ends otherwise returns a summary
\* with every configured folder.
C8_CatalogFailure ==
  pc = "done" =>
    \/ /\ result = "raised"
       /\ summary.by_folder = EmptyMap
       /\ log = <<>>
       /\ state = before
       /\ NoFileWrite
    \/ /\ result = "returned"
       /\ DOMAIN summary.by_folder = Range(configured_folders)

\* C8 witness: a cycle raised at get_folders on a service that had synced
\* documents before: the state, with its seen documents, is as it was
C8_Witness ==
  /\ pc = "done"
  /\ result = "raised"
  /\ ~dry_run
  /\ state.seen_documents # EmptyMap
  /\ file.exists

\* C9: in run(), a cycle that raises does not end the loop: run() goes to its
\* sleep, after the sleep it checks the flag, and with the flag still set it
\* starts another cycle; the loop ends only after stop() was called.
C9_LoopSurvives ==
  /\ [][/\ pc' = "stopped" => stopCalled
        /\ (pc = "done" /\ result = "raised" /\ pc' # pc) => pc' = "sleep"
        /\ (pc = "sleep" /\ pc' # pc) => pc' = "check"]_vars
  /\ []((pc = "check" /\ ~stopCalled /\ clock < MaxCycles) => ENABLED LoopCycle)

\* C9 witness: the first cycle of run() raised (nothing was saved), stop()
\* was not called, and the second cycle is under way
C9_Witness ==
  /\ mode = "loop"
  /\ pc = "fetch"
  /\ clock = 2
  /\ ~file.exists
  /\ ~stopCalled

\* C10: when stop() is called while a cycle of run() is in progress, that
\* cycle goes on to its end (every document of every batch processed, the
\* state saved), no cycle starts after it, and run() ends.
C10_StopBetweenCycles ==
  /\ [][stopMid => ~(pc = "check" /\ pc' = "fetch")]_vars
  /\ []((stopMid /\ pc = "done" /\ result = "returned") => (AllProcessed /\ writes = 1 /\ file = [exists |-> TRUE, data |-> state]))
  /\ []((stopMid /\ pc # "stopped") => ENABLED LoopSteps)
  /\ (stopMid ~> pc = "stopped")

\* C10 witness: stop() came while the first cycle was processing documents;
\* the cycle delivered both documents and saved, and run() has ended
C10_Witness ==
  /\ stopMid
  /\ pc = "stopped"
  /\ clock = 1
  /\ file.exists
  /\ DOMAIN file.data.seen_documents = Ids
  /\ batch_size = 2

\* a new StateManager is constructed while the file does not hold what the
\* old one last had in memory (nothing saved, or calls made after the save)
ReloadOfUnsaved == Reload /\ ~(file.exists /\ file.data = state)

\* C14: every mark_synced(id), whatever failures of the id came before it,
\* leaves the id absent from failed_documents and present in seen_documents.
C14_SuccessClearsFailure ==
  [][\A id \in Ids, v \in Versions, f \in Range(configured_folders) :
       MarkSynced(id, v, f) => (id \notin DOMAIN state'.failed_documents /\ id \in DOMAIN state'.seen_documents)]_vars

\* C14 witness: d1 failed twice and was then marked synced: no failed record
\* is left and d1 is seen
C14_Witness ==
  /\ pc = "init"
  /\ ~file.exists
  /\ state.stats.total_errors = 2
  /\ state.stats.total_synced = 1
  /\ state.failed_documents = EmptyMap
  /\ DOMAIN state.seen_documents = {"d1"}

\* C15: mark_failed(id) leaves seen_documents, total_synced and every
\* by_folder synced counter as they were (a counter it creates is 0), so a
\* seen document stays seen with its marker while its failures add up.
C15_FailureKeepsSeen ==
  [][\A id \in Ids, f \in Range(configured_folders), doc \in {Doc(i, None) : i \in Ids} \cup {NoDoc} :
       MarkFailed(id, f, doc) =>
         /\ state'.seen_documents = state.seen_documents
         /\ state'.stats.total_synced = state.stats.total_synced
         /\ \A g \in DOMAIN state'.stats.by_folder :
              state'.stats.by_folder[g].synced = IF g \in DOMAIN state.stats.by_folder THEN state.stats.by_folder[g].synced ELSE 0]_vars

\* C15 witness: d1 was synced with marker t1 and has failed twice since: it
\* is still seen with t1
C15_Witness ==
  /\ "d1" \in DOMAIN state.seen_documents
  /\ "d1" \in DOMAIN state.failed_documents
  /\ state.failed_documents["d1"].attempts = 2
  /\ state.seen_documents["d1"].last_updated = "t1"
  /\ state.seen_documents["d1"].synced_at < state.failed_documents["d1"].last_attempt
  /\ state.stats.total_synced = 1

\* C16: each mark_failed(id) sets attempts to the id's previous attempts plus
\* 1 (1 without a record); under mark_synced, mark_failed, update_folder,
\* save and a reload of what was saved, a record that stays keeps or raises
\* its attempts, and a record goes away only by mark_synced(id) (or clear).
C16_AttemptsMonotonic ==
  [][/\ \A id \in Ids, f \in Range(configured_folders), doc \in {Doc(i, None) : i \in Ids} \cup {NoDoc} :
          MarkFailed(id, f, doc) =>
            state'.failed_documents[id].attempts = (IF id \in DOMAIN state.failed_documents THEN state.failed_documents[id].attempts ELSE 0) + 1
     /\ \/ Clear
        \/ ReloadOfUnsaved
        \/ \A id \in DOMAIN state.failed_documents :
             IF id \in DOMAIN state'.failed_documents
             THEN state'.failed_documents[id].attempts >= state.failed_documents[id].attempts
             ELSE \E v \in Versions, f \in Range(configured_folders) : MarkSynced(id, v, f)]_vars

\* C16 witness: d1 failed twice, was marked synced, and failed again: its
\* record counts from 1
C16_Witness ==
  /\ state.stats.total_errors = 3
  /\ state.stats.total_synced = 1
  /\ DOMAIN state.failed_documents = {"d1"}
  /\ state.failed_documents["d1"].attempts = 1
  /\ DOMAIN state.seen_documents = {"d1"}

\* C17: under mark_synced, mark_failed, update_folder, save and a reload of
\* what was saved (the calls a sync cycle makes), total_synced, total_errors
\* and every by_folder counter keep or raise their value and no by_folder
\* entry goes away; clear() resets them.
C17_CountersMonotonic ==
  [][/\ Clear => state'.stats = _default_state.stats
     /\ \/ Clear
        \/ ReloadOfUnsaved
        \/ /\ state'.stats.total_synced >= state.stats.total_synced
           /\ state'.stats.total_errors >= state.stats.total_errors
           /\ \A f \in DOMAIN state.stats.by_folder :
                /\ f \in DOMAIN state'.stats.by_folder
                /\ state'.stats.by_folder[f].synced >= state.stats.by_folder[f].synced
                /\ state'.stats.by_folder[f].errors >= state.stats.by_folder[f].errors]_vars

\* C17 witness: after a sync in folder A, a failure in folder B, an
\* update_folder and a save, the counters of both folders stand
C17_Witness ==
  /\ file.exists
  /\ file.data = state
  /\ state.folders # EmptyMap
  /\ DOMAIN state.stats.by_folder = {"A", "B"}
  /\ state.stats.by_folder["A"].synced = 1
  /\ state.stats.by_folder["B"].errors = 1
  /\ state.stats.total_synced = 1
  /\ state.stats.total_errors = 1

\* C18: once an id has a seen record, every mark_synced, mark_failed,
\* update_folder and save, and every reload of what was saved, keeps the
\* record's first_seen.
C18_FirstSeenImmutable ==
  [][\/ Clear
     \/ ReloadOfUnsaved
     \/ \A id \in DOMAIN state.seen_documents :
          /\ id \in DOMAIN state'.seen_documents
          /\ state'.seen_documents[id].first_seen = state.seen_documents[id].first_seen]_vars

\* C18 witness: d1 was synced at time 1, the state saved and reloaded, and d1
\* synced again at time 4: first_seen is still 1
C18_Witness ==
  /\ file.exists
  /\ "d1" \in DOMAIN file.data.seen_documents
  /\ file.data.seen_documents["d1"].first_seen = 1
  /\ "d1" \in DOMAIN state.seen_documents
  /\ state.seen_documents["d1"].first_seen = 1
  /\ state.seen_documents["d1"].synced_at = 4
  /\ state.stats.total_synced = 2

\* the number of documents the remote folder titled f lists (0 without such a folder)
ListedIn(f) == IF InLookup(get_folders, f) THEN Len(folder_lookup(get_folders, f).documents) ELSE 0

\* C20: a configured folder without a remote folder of its title gets a
\* by_folder entry with total, new, synced and failed 0 and no documents,
\* adds nothing to documents_found and counts in folders_checked; the other
\* configured folders are processed and a live cycle saves the state.
C20_UnmatchedFolder ==
  /\ [][(FolderStep /\ ~InLookup(get_folders, configured_folders[fi])) =>
          /\ pc' = "folder"
          /\ fi' = fi + 1
          /\ result' = result
          /\ state' = state]_vars
  /\ []((pc = "done" /\ result = "returned") =>
          /\ summary.folders_checked = Len(configured_folders)
          /\ summary.documents_found = ListedIn(configured_folders[1]) + ListedIn(configured_folders[2])
          /\ \A f \in Range(configured_folders) :
               /\ f \in DOMAIN summary.by_folder
               /\ ~InLookup(get_folders, f) => summary.by_folder[f] = [total |-> 0, new |-> 0, synced |-> 0, failed |-> 0, documents |-> <<>>]
               /\ InLookup(get_folders, f) => summary.by_folder[f].total = ListedIn(f)
          /\ AllProcessed
          /\ ~dry_run => (writes = 1 /\ file = [exists |-> TRUE, data |-> state]))

\* C20 witness: no remote folder is titled A, the first configured folder;
\* the live cycle went on to folder B, delivered its two documents and saved
C20_Witness ==
  /\ LiveDone
  /\ ~InLookup(get_folders, "A")
  /\ summary.by_folder["A"] = [total |-> 0, new |-> 0, synced |-> 0, failed |-> 0, documents |-> <<>>]
  /\ summary.by_folder["B"].total = 3
  /\ summary.by_folder["B"].synced = 2
  /\ summary.folders_checked = 2
  /\ file.exists
  /\ DOMAIN file.data.seen_documents = Ids

\* a status in 400..499 other than 429
ClientError(r) == r.kind = "status" /\ r.code \in 400..499 /\ r.code # 429

\* 429, a 5xx status, or a network-level error
RetryableFailure(r) == r.kind = "request_error" \/ (r.kind = "status" /\ (r.code = 429 \/ r.code \in 500..599))

\* a 2xx status
Delivered2xx(r) == r.kind = "status" /\ r.code \in 200..299

\* the response the latest POST met
LastResponse == posts[Len(posts)].response

\* C11: a POST that gets a status in 400..499 other than 429 is the last POST
\* of its send: send raises that error at once; when it is the first POST
\* the delivery was attempted exactly once, whatever retry_attempts is.
C11_NoRetryOnClientError ==
  /\ \A i \in 1..Len(posts) :
       ClientError(posts[i].response) =>
         /\ i = Len(posts)
         /\ ppc = "end"
         /\ send_raised = posts[i].response
         /\ pres = "False"
  /\ (posts # <<>> /\ ClientError(posts[1].response)) => Len(posts) = 1

\* C11 witness: retry_attempts is 3, the first POST got 400, and send has
\* raised it after that one POST
C11_Witness ==
  /\ retry_attempts = 3
  /\ ppc = "end"
  /\ Len(posts) = 1
  /\ posts[1].response = [kind |-> "status", code |-> 400]
  /\ send_raised = [kind |-> "status", code |-> 400]

\* C12: a send whose POSTs get retryable failures and then a success at
\* attempt j <= retry_attempts makes exactly j POSTs and reports success:
\* every POST before the last got a retryable failure, a success is the last
\* POST, and a retryable failure before attempt retry_attempts is followed by
\* another POST.
C12_RetryUntilSuccess ==
  /\ Len(posts) <= Max(retry_attempts, 0)
  /\ \A i \in 1..Len(posts) :
       /\ i < Len(posts) => RetryableFailure(posts[i].response)
       /\ Delivered2xx(posts[i].response) =>
            /\ i = Len(posts)
            /\ ppc = "end"
            /\ pres = "True"
            /\ send_raised = NoError
  /\ (posts # <<>> /\ RetryableFailure(LastResponse) /\ Len(posts) < retry_attempts) =>
       /\ ppc \in {"sleep", "post"}
       /\ ppc = "sleep" => ENABLED RetrySleep
       /\ ppc = "post" => ENABLED Post([kind |-> "status", code |-> 200])

\* C12 witness: 500 then 200: two POSTs, success, the document is seen
C12_Witness ==
  /\ ppc = "end"
  /\ Len(posts) = 2
  /\ posts[1].response = [kind |-> "status", code |-> 500]
  /\ posts[2].response = [kind |-> "status", code |-> 200]
  /\ pres = "True"
  /\ "d1" \in DOMAIN state.seen_documents

\* C13: a send whose POSTs all got retryable failures has made exactly
\* retry_attempts POSTs when it ends, it raises the error of the last one,
\* and _process_document records one failure of the document (attempts and
\* the error counters go up by one, the seen records stay) and returns False.
C13_RetryExhaustion ==
  (ppc = "end" /\ posts # <<>> /\ \A i \in 1..Len(posts) : RetryableFailure(posts[i].response)) =>
    /\ Len(posts) = retry_attempts
    /\ send_raised = LastResponse
    /\ pres = "False"
    /\ "d1" \in DOMAIN state.failed_documents
    /\ state.failed_documents["d1"].attempts = (IF "d1" \in DOMAIN before.failed_documents THEN before.failed_documents["d1"].attempts ELSE 0) + 1
    /\ state.stats.total_errors = before.stats.total_errors + 1
    /\ state.stats.total_synced = before.stats.total_synced
    /\ state.seen_documents = before.seen_documents

\* C13 witness: retry_attempts is 3 and the three POSTs got 500, 429 and a
\* network error: send raised the network error and the document, which had
\* failed once before, has its second failure on record
C13_Witness ==
  /\ retry_attempts = 3
  /\ ppc = "end"
  /\ Len(posts) = 3
  /\ posts[1].response = [kind |-> "status", code |-> 500]
  /\ posts[2].response = [kind |-> "status", code |-> 429]
  /\ posts[3].response.kind = "request_error"
  /\ send_raised.kind = "request_error"
  /\ "d1" \in DOMAIN state.failed_documents
  /\ state.failed_documents["d1"].attempts = 2

\* C19: with include_transcript on, when get_transcript raises the call goes
\* on: nothing is recorded as failed for that, the payload is built with an
\* empty transcript text and POSTed, and when a POST succeeds the document is
\* marked synced and has no failed record.
C19_TranscriptFailureNonFatal ==
  /\ [][(TranscriptRaise(TRUE) /\ retry_attempts >= 1) =>
          /\ ppc' = "post"
          /\ payload'.transcript = <<>>
          /\ state' = state]_vars
  /\ [](tfetch = "raised" =>
          /\ include_transcript
          /\ transcript = NoTranscript
          /\ \A i \in 1..Len(posts) : posts[i].payload.transcript = <<>> /\ posts[i].payload.note_id = "d1"
          /\ ppc \in {"post", "sleep"} => state = before
          /\ (ppc = "end" /\ posts # <<>> /\ Delivered2xx(LastResponse)) =>
               /\ pres = "True"
               /\ "d1" \in DOMAIN state.seen_documents
               /\ "d1" \notin DOMAIN state.failed_documents
               /\ state.stats.total_errors = before.stats.total_errors)

\* C19 witness: get_transcript raised for a document that had failed before;
\* the payload went out with an empty transcript, the POST succeeded, the
\* document is seen and its failed record is gone
C19_Witness ==
  /\ tfetch = "raised"
  /\ ppc = "end"
  /\ "d1" \in DOMAIN before.failed_documents
  /\ Len(posts) = 1
  /\ posts[1].payload.transcript = <<>>
  /\ Delivered2xx(posts[1].response)
  /\ pres = "True"
  /\ "d1" \in DOMAIN state.seen_documents
  /\ "d1" \notin DOMAIN state.failed_documents

\* the file holds a state document: the text of a JSON object with every key
\* of the state dict
StateDocument(f) ==
  /\ f.exists
  /\ ~f.isdir
  /\ Decodable(f.text)
  /\ IsObject(f.text)
  /\ Range(KeyOrder) \subseteq DOMAIN json_load(f.text)

\* the StateManager holds the default state
FreshState == shape = "dict" /\ DOMAIN state = Range(KeyOrder) /\ state = _default_state

\* C21: a state file that is corrupt or unreadable (text that does not parse,
\* or JSON of another shape than a state) is treated as absent and is never
\* fatal: the constructor returns, the StateManager holds the default state,
\* and is_document_seen, mark_synced and mark_failed then work as on a fresh
\* state (none of them raises).
C21_CorruptIsAbsent ==
  /\ fpc # "fatal"
  /\ (opres = "constructed" /\ disk.exists /\ ~StateDocument(disk)) => FreshState
  /\ opres \notin {"KeyError", "TypeError"}

C23_AtomicSave ==
  fpc = "saving" =>
    \/ /\ disk.exists = prev.exists
       /\ Len(disk.text) = Len(prev.text)
       /\ disk = prev
    \/ /\ StateDocument(disk)
       /\ json_load(disk.text) = state

\* the summary entry of the folder JustFiltered speaks of
FilteredEntry == IF pc = "doc" THEN folder_summary ELSE summary.by_folder[FilteredFolder]

\* the sum of one field over the by_folder entries of a summary
FieldSum(sm, field) ==
  LET RECURSIVE upto(_)
      upto(n) == IF n = 0 THEN 0 ELSE sm.by_folder[configured_folders[n]][field] + upto(n - 1)
  IN  upto(Len(configured_folders))

\* what the claim says of the entries of one folder, cut standing for the
\* number of entries its selection of `new` documents must give
EntryConsistent(e, cut) ==
  /\ Len(e.documents) = e.synced + e.failed
  /\ Len(e.documents) = cut
  /\ \A i \in 1..Len(e.documents) : e.documents[i].action \in (IF dry_run THEN {"would_sync"} ELSE {"synced", "failed"})

\* the top-level counters are the sums over the by_folder entries
TotalsConsistent ==
  /\ DOMAIN summary.by_folder = Range(configured_folders)
  /\ summary.documents_found = FieldSum(summary, "total")
  /\ summary.documents_new = FieldSum(summary, "new")
  /\ summary.documents_synced = FieldSum(summary, "synced")
  /\ summary.documents_failed = FieldSum(summary, "failed")

RECURSIVE SplitLines(_)
\* the lines of a text: its pieces between line breaks
SplitLines(s) ==
  IF \A i \in 1..Len(s) : s[i] # LF THEN <<s>>
  ELSE LET i == CHOOSE k \in 1..Len(s) : s[k] = LF /\ \A j \in 1..(k - 1) : s[j] # LF
       IN  <<SubSeq(s, 1, i - 1)>> \o SplitLines(SubSeq(s, i + 1, Len(s)))

RECURSIVE InlineText(_)
\* the texts of a sequence of text nodes, one after the other
InlineText(c) == IF c = <<>> THEN <<>> ELSE c[1].text \o InlineText(Tail(c))

\* at least one text node, none ending with a line break
PlainInline(c) == c # <<>> /\ \A i \in 1..Len(c) : ~EndsWithLF(c[i].text)

\* _prosemirror_to_text has returned the text of a rich-text document
Projected == pout.done /\ pin.fn = "_prosemirror_to_text" /\ pin.arg.type = "doc"

\* C25: every heading of level n (1 when the node gives none) is rendered as
\* a line made of n '#', one space and the heading's text, whether it is the
\* first block of the document or comes after other blocks.
C25_HeadingProjection ==
  Projected =>
    \A i \in 1..Len(pin.arg.content) :
      LET b == pin.arg.content[i]
      IN  (b.type = "heading" /\ PlainInline(b.content)) =>
            \E j \in 1..Len(SplitLines(pout.value)) :
              SplitLines(pout.value)[j] = [k \in 1..(IF b.level = 0 THEN 1 ELSE b.level) |-> "#"] \o <<" ">> \o InlineText(b.content)

\* C26: every item of a bulletList (listItem -> paragraph -> text), the first
\* and the later ones, is rendered as a line made of "- " and the item's text.
C26_BulletProjection ==
  Projected =>
    \A i \in 1..Len(pin.arg.content) :
      LET b == pin.arg.content[i]
      IN  b.type = "bulletList" =>
            \A k \in 1..Len(b.content) :
              PlainInline(b.content[k].content[1].content) =>
                \E j \in 1..Len(SplitLines(pout.value)) :
                  SplitLines(pout.value)[j] = <<"-", " ">> \o InlineText(b.content[k].content[1].content)

\* every block of the document is a paragraph
OnlyParagraphs(c) == c.type = "doc" /\ \A i \in 1..Len(c.content) : c.content[i].type = "paragraph"

\* C27 as stated: the text nodes of a paragraph are concatenated on one line
\* with no line break between them, the paragraphs (those with text) give
\* the lines of the output in document order, and {} and None give "".
C27_Original ==
  (pout.done /\ pin.fn = "_prosemirror_to_text") =>
    /\ pin.arg \in {EmptyDict, NoneContent} => pout.value = <<>>
    /\ (OnlyParagraphs(pin.arg) /\ \A i \in 1..Len(pin.arg.content) : pin.arg.content[i].content # <<>>) =>
         pout.value = join([i \in 1..Len(pin.arg.content) |-> InlineText(pin.arg.content[i].content)])

RECURSIVE RunText(_)
\* the texts of a paragraph, with a line break put after every text that
\* ends with a line break and is followed by another text
RunText(c) ==
  IF c = <<>> THEN <<>>
  ELSE IF Len(c) = 1 THEN c[1].text
  ELSE c[1].text \o (IF EndsWithLF(c[1].text) THEN <<LF>> ELSE <<>>) \o RunText(Tail(c))

RECURSIVE FromFirstText(_)
\* the paragraphs from the first one that has a text node
FromFirstText(blocks) == IF blocks = <<>> \/ blocks[1].content # <<>> THEN blocks ELSE FromFirstText(Tail(blocks))

\* C27 amended: a text node continues the line of the text node before it in
\* the same paragraph unless that one ends with a line break, in which case
\* it starts a new line; the paragraphs, from the first one with a text
\* node, give the lines of the output in document order (a paragraph without
\* text an empty line); {} and None give "".
C27_TextRuns ==
  (pout.done /\ pin.fn = "_prosemirror_to_text") =>
    /\ pin.arg \in {EmptyDict, NoneContent} => pout.value = <<>>
    /\ OnlyParagraphs(pin.arg) =>
         pout.value = join([i \in 1..Len(FromFirstText(pin.arg.content)) |-> RunText(FromFirstText(pin.arg.content)[i].content)])

\* C27 witness: two paragraphs, the first with two plain text nodes: "xx"
\* on the first line and "x" on the second
C27_Witness ==
  /\ Projected
  /\ OnlyParagraphs(pin.arg)
  /\ Len(pin.arg.content) = 2
  /\ Len(pin.arg.content[1].content) = 2
  /\ PlainInline(pin.arg.content[1].content)
  /\ PlainInline(pin.arg.content[2].content)
  /\ pout.value = <<"x", "x", LF, "x">>

\* C28: the transcript text is the segments in input order, one per line,
\* "Me: {text}" for a segment whose source is microphone and "Them: {text}"
\* for any other; a transcript that is None or empty gives "".
C28_TranscriptFormat ==
  (pout.done /\ pin.fn = "transcript_text") =>
    IF pin.arg.is_none \/ pin.arg.segments = <<>>
    THEN pout.value = <<>>
    ELSE /\ Len(SplitLines(pout.value)) = Len(pin.arg.segments)
         /\ \A i \in 1..Len(pin.arg.segments) :
              LET line == SplitLines(pout.value)[i]
                  seg == pin.arg.segments[i]
              IN  /\ Len(line) = (IF seg.text = None THEN 2 ELSE 3)
                  /\ line[1] = (IF seg.source = "microphone" THEN "Me" ELSE "Them")
                  /\ line[2] = ": "
                  /\ seg.text # None => line[3] = seg.text

\* C28 witness: a microphone segment then a system segment
C28_Witness ==
  /\ pout.done
  /\ pin.fn = "transcript_text"
  /\ ~pin.arg.is_none
  /\ Len(pin.arg.segments) = 2
  /\ pin.arg.segments[1].source = "microphone"
  /\ pin.arg.segments[2].source = "system"
  /\ pout.value = <<"Me", ": ", "hi", LF, "Them", ": ", "hi">>

\* doc["people"] gives no names: it is missing or null, or it is a dict
\* whose attendees are missing, null or empty, or it is an empty list
PeopleUnusable(p) == p.kind \in {"missing", "null"} \/ p.att \in {"missing", "null"} \/ p.items = <<>>

\* doc["attendees"] gives no names
AttendeesUnusable(a) == a.kind \in {"missing", "null"} \/ a.items = <<>>

\* C29: for a document whose people and/or attendees are absent or carry no
\* usable value, the participant extraction does not raise, the missing
\* parts add nothing to the list, and no top-level attendee string is added
\* that the list already holds.
C29_ParticipantsNeverFail ==
  (pout.done /\ pin.fn = "participants" /\ (PeopleUnusable(pin.arg.people) \/ AttendeesUnusable(pin.arg.attendees))
     /\ \A i \in 1..Len(pin.arg.people.items) : pin.arg.people.items[i].isdict) =>
    /\ pout.raised = "none"
    /\ PeopleUnusable(pin.arg.people) => \A i \in 1..Len(pout.value) : \E k \in 1..Len(pin.arg.attendees.items) : pin.arg.attendees.items[k].isstr /\ pin.arg.attendees.items[k].value = pout.value[i]
    /\ (PeopleUnusable(pin.arg.people) /\ AttendeesUnusable(pin.arg.attendees)) => pout.value = <<>>
    /\ PeopleUnusable(pin.arg.people) => \A i, j \in 1..Len(pout.value) : pout.value[i] = pout.value[j] => i = j

\* t is s followed by zero bytes only
ZeroExtension(s, t) == Len(s) <= Len(t) /\ SubSeq(t, 1, Len(s)) = s /\ \A i \in (Len(s) + 1)..Len(t) : t[i] = NUL

C31_SignedEveryAttempt ==
  \A i \in 1..Len(posts) :
    /\ posts[i].payload = payload
    /\ posts[i].payload = posts[1].payload
    /\ posts[i].headers = posts[1].headers
    /\ posts[i].headers.X_Granola_Signature = sign_payload(payload_items(payload), webhook_secret)
    /\ verify_signature(payload_items(posts[i].payload), webhook_secret, posts[i].headers.X_Granola_Signature)

\* C31 witness: a send that made three POSTs of a payload with a transcript,
\* the last one verified by the receiver
C31_Witness ==
  /\ Len(posts) = 3
  /\ payload.transcript # <<>>
  /\ RetryableFailure(posts[1].response)
  /\ verify_signature(payload_items(posts[3].payload), webhook_secret, posts[3].headers.X_Granola_Signature)

\* the ids a delivery failed for in the current cycle
FailedInCycle == {log[i].id : i \in {j \in 1..Len(log) : ~log[j].ok}}

\* C32: a document with a FailedRecord, however many attempts it counts, that
\* a configured folder lists and that is unseen or listed with a marker other
\* than its recorded one is selected by that folder's change detection in
\* every cycle; and when a live cycle returns, every document whose delivery
\* failed in it and that is still unseen or outdated has its FailedRecord, as
\* it is in memory, in the state file.
C32_FailedRetried ==
  /\ JustFiltered =>
       \A i \in 1..Len(FilteredInput) :
         (FilteredInput[i].id \in DOMAIN state.failed_documents /\ Eligible(state, FilteredInput[i]))
           => \E k \in 1..Len(new_docs) : new_docs[k] = FilteredInput[i]
  /\ LiveDone =>
       \A id \in FailedInCycle :
         Eligible(state, Listed(id)) =>
           /\ file.exists
           /\ id \in DOMAIN file.data.failed_documents
           /\ file.data.failed_documents[id] = state.failed_documents[id]
           /\ file.data.failed_documents[id].attempts >= 1

\* C32 witness: d1 failed in two cycles, the third cycle selected it again
\* and failed again, and the file holds its record with three attempts
C32_Witness ==
  /\ LiveDone
  /\ "d1" \in FailedInCycle
  /\ "d1" \notin DOMAIN state.seen_documents
  /\ file.data.failed_documents["d1"].attempts = 3

ConvergedAt(st) ==
  \A k \in 1..Len(configured_folders) :
    InLookup(get_folders, configured_folders[k]) =>
      \A i \in 1..Len(folder_lookup(get_folders, configured_folders[k]).documents) :
        ~Eligible(st, folder_lookup(get_folders, configured_folders[k]).documents[i])

\* C34: with a fixed catalog, a positive batch_size and deliveries that
\* succeed, the cycles of the loop reach a state from which on every document
\* with an id of every matched configured folder is seen with its current
\* marker and nothing is selected or sent; and a cycle that begins in such a
\* state selects nothing and sends no webhook.
C34_Convergence ==
  /\ <>[](ConvergedAt(state) /\ new_docs = <<>> /\ log = <<>>)
  /\ []((InCycle /\ ConvergedAt(before)) => (new_docs = <<>> /\ log = <<>> /\ state.seen_documents = before.seen_documents))

\* C34 witness: the third cycle has returned; the first two each delivered
\* one document of folder B (batch_size 1), the third found the documents,
\* selected none and sent nothing
C34_Witness ==
  /\ LiveDone
  /\ clock = 3
  /\ batch_size = 1
  /\ ConvergedAt(before)
  /\ DOMAIN state.seen_documents = {"d1", "d2"}
  /\ state.seen_documents["d1"].synced_at # state.seen_documents["d2"].synced_at
  /\ summary.documents_found > 0
  /\ summary.documents_synced = 0
  /\ log = <<>>

\* a matched configured folder lists a document with this id
ListedConfigured(id) ==
  \E k \in 1..Len(configured_folders) :
    /\ InLookup(get_folders, configured_folders[k])
    /\ \E i \in 1..Len(folder_lookup(get_folders, configured_folders[k]).documents) :
         folder_lookup(get_folders, configured_folders[k]).documents[i].id = id

\* a delivery of the document was attempted: it was marked synced or failed
Attempted(id) == id \in DOMAIN state.seen_documents \cup DOMAIN state.failed_documents

C36_OncePerCycle ==
  \A i \in 1..Len(log) : \A j \in 1..Len(log) :
    (i < j /\ log[i].ok /\ log[j].ok /\ log[i].id = log[j].id) => log[i].marker # log[j].marker

\* C37: once stop() has been called, before run() began to execute or at
\* any await of it, run() starts no cycle after that request, and a run()
\* that is executing terminates.
C37_StopNeverLost ==
  /\ [][(stopEarly \/ stopCalled) => ~(pc = "check" /\ pc' = "fetch")]_vars
  /\ (((stopEarly \/ stopCalled) /\ mode = "loop") ~> pc = "stopped")

\* the sum of one counter over the entries of stats.by_folder
RECURSIVE CounterSum(_, _, _)
CounterSum(bf, names, field) ==
  IF names = {} THEN 0
  ELSE LET f == CHOOSE x \in names : TRUE
       IN  bf[f][field] + CounterSum(bf, names \ {f}, field)

\* C38: from the default state, after any sequence of mark_synced,
\* mark_failed and clear (and of update_folder, save and reload),
\* total_synced is the sum of the by_folder synced counters and total_errors
\* the sum of the by_folder errors counters.
C38_StatsBreakdown ==
  /\ state.stats.total_synced = CounterSum(state.stats.by_folder, DOMAIN state.stats.by_folder, "synced")
  /\ state.stats.total_errors = CounterSum(state.stats.by_folder, DOMAIN state.stats.by_folder, "errors")

\* C38 witness: two folders have counters, one of them both a sync and an
\* error, and three calls were counted
C38_Witness ==
  /\ DOMAIN state.stats.by_folder = {"A", "B"}
  /\ state.stats.by_folder["A"].synced >= 1
  /\ state.stats.by_folder["A"].errors >= 1
  /\ state.stats.total_synced + state.stats.total_errors = 3
  /\ state.stats.by_folder["B"].synced + state.stats.by_folder["B"].errors = 1

\* the ids mark_synced was applied on in the current cycle
SyncedInCycle == {log[i].id : i \in {j \in 1..Len(log) : log[j].ok}}

\* C39: when a live cycle returns, documents_synced is the increase of
\* stats.total_synced during the cycle, documents_failed the increase of
\* stats.total_errors, and the ids its summary reports with action synced
\* are the ids mark_synced was applied on in the cycle.
C39_SummaryMatchesState ==
  LiveDone =>
    /\ summary.documents_synced = state.stats.total_synced - before.stats.total_synced
    /\ summary.documents_failed = state.stats.total_errors - before.stats.total_errors
    /\ IdsWith(summary, "synced") = SyncedInCycle

\* C40: for every configured retry_attempts, zero and negative values
\* included, a send that reports failure has made at least one POST, and a
\* send reports success only after a POST that got a successful response.
C40_AtLeastOnePost ==
  /\ send_raised # NoError => posts # <<>>
  /\ pres = "True" => (posts # <<>> /\ Delivered2xx(LastResponse))

====
